---- MODULE Spec2Model ----
(***************************************************************************)
(* SRE Meeting Hub: the knowledge-base assistant (src/chatbot.py), the     *)
(* tables of src/database.py with the functions that read and write them,  *)
(* and the session state of the pages of src/app.py.                       *)
(*                                                                         *)
(* Text is modelled by TLA+ strings; a character is a string of length 1.  *)
(* Source literals that hold non-ASCII characters (emoji, the em dash) are *)
(* written here without them, since the module is ASCII.                   *)
(*                                                                         *)
(* Scores are Python floats in the source.  Here they are exact rationals, *)
(* held as integers over a common denominator: a fuzzy score s is the      *)
(* integer s * ScoreUnit and an article total t the integer t * TotalUnit. *)
(***************************************************************************)
EXTENDS Integers, Sequences, FiniteSets, TLC

VARIABLES
    store,          \* the rows of table kb_articles
    nextId,         \* the next AUTOINCREMENT value of kb_articles.id
    call,           \* the frame of the last call: its input, locals and outcome
    tables,         \* the rows of the meeting tables and their AUTOINCREMENT values
    connections,    \* the connections opened by get_connection() and not closed
    sessions,       \* each concurrent session's place inside a database function
    session_state   \* st.session_state of one browser session

vars == <<store, nextId, call, tables, connections, sessions, session_state>>

\* the meeting hub around the knowledge base, and the knowledge base
hub == <<tables, connections, sessions, session_state>>
kb == <<store, nextId, call>>

\* The SQL NULL / Python None of a nullable text column.
NULL == "<NULL>"

(***************************************************************************)
(* Python str methods                                                      *)
(***************************************************************************)
UpperLetters == "ABCDEFGHIJKLMNOPQRSTUVWXYZ"
LowerLetters == "abcdefghijklmnopqrstuvwxyz"

CharAt(s, i) == SubSeq(s, i, i)

LowerTable == [c \in {CharAt(UpperLetters, i) : i \in 1..26} |->
                 CharAt(LowerLetters, CHOOSE i \in 1..26 : CharAt(UpperLetters, i) = c)]

LowerChar(c) == IF c \in DOMAIN LowerTable THEN LowerTable[c] ELSE c

\* str.lower()
RECURSIVE Lower(_)
Lower(s) == IF s = "" THEN "" ELSE LowerChar(Head(s)) \o Lower(Tail(s))

\* the characters str.strip() and str.split() treat as whitespace
WhiteSpace == {" ", "\t"}

RECURSIVE LStrip(_)
LStrip(s) == IF s # "" /\ Head(s) \in WhiteSpace THEN LStrip(Tail(s)) ELSE s

RECURSIVE RStrip(_)
RStrip(s) ==
    IF s # "" /\ CharAt(s, Len(s)) \in WhiteSpace
    THEN RStrip(SubSeq(s, 1, Len(s) - 1)) ELSE s

\* a strip() that strips nothing, which C3 tells from str.strip()
StripNothing(s) == s

\* str.strip()
Strip(s) == RStrip(LStrip(s))

\* the length of the first whitespace-free run of s
RECURSIVE WordLen(_)
WordLen(s) == IF s = "" \/ Head(s) \in WhiteSpace THEN 0 ELSE 1 + WordLen(Tail(s))

\* str.split(): the maximal whitespace-free runs, in order
RECURSIVE Split(_)
Split(s) ==
    LET t == LStrip(s)
        n == WordLen(t)
    IN  IF t = "" THEN <<>>
        ELSE <<SubSeq(t, 1, n)>> \o Split(SubSeq(t, n + 1, Len(t)))

\* Python's `needle in hay` on strings
Contains(needle, hay) ==
    \E i \in 0..(Len(hay) - Len(needle)) : SubSeq(hay, i + 1, i + Len(needle)) = needle

(***************************************************************************)
(* SQLite: LOWER(column) LIKE pattern                                      *)
(***************************************************************************)
\* LIKE: '%' matches any run of characters, '_' any one character, every
\* other character itself, ASCII letters without regard to case.
RECURSIVE LikeMatch(_, _)
LikeMatch(pattern, text) ==
    IF pattern = "" THEN text = ""
    ELSE IF Head(pattern) = "%"
         THEN \E k \in 0..Len(text) : LikeMatch(Tail(pattern), SubSeq(text, k + 1, Len(text)))
         ELSE /\ text # ""
              /\ \/ Head(pattern) = "_"
                 \/ LowerChar(Head(pattern)) = LowerChar(Head(text))
              /\ LikeMatch(Tail(pattern), Tail(text))

\* LOWER(column) LIKE ?  -- NULL LIKE ? is NULL, which WHERE takes as false
LowerLike(column, pattern) == column # NULL /\ LikeMatch(pattern, Lower(column))

(***************************************************************************)
(* difflib.SequenceMatcher(None, a, b).ratio()                             *)
(***************************************************************************)
\* the length of the longest common run starting at a[i] and b[j]
RECURSIVE RunLen(_, _, _, _)
RunLen(a, b, i, j) ==
    IF i > Len(a) \/ j > Len(b) \/ CharAt(a, i) # CharAt(b, j) THEN 0
    ELSE 1 + RunLen(a, b, i + 1, j + 1)

SetMax(S) == CHOOSE x \in S : \A y \in S : y <= x
SetMin(S) == CHOOSE x \in S : \A y \in S : x <= y

\* find_longest_match: the longest matching block; of those the one that
\* starts earliest in a, and of those the one that starts earliest in b.
FindLongestMatch(a, b) ==
    LET Earliest(run, k) ==
            LET InB(i) == [i |-> i, j |-> SetMin({y \in 1..Len(b) : run[i, y] = k}), k |-> k]
            IN  IF k = 0 THEN [i |-> 1, j |-> 1, k |-> 0]
                ELSE InB(SetMin({x \in 1..Len(a) : \E y \in 1..Len(b) : run[x, y] = k}))
        Longest(run) ==
            Earliest(run, SetMax({0} \cup {run[x, y] : x \in 1..Len(a), y \in 1..Len(b)}))
    IN  Longest([x \in 1..Len(a), y \in 1..Len(b) |-> RunLen(a, b, x, y)])

\* get_matching_blocks: the sum of the sizes of the matching blocks
RECURSIVE Matches(_, _)
Matches(a, b) ==
    IF a = "" \/ b = "" THEN 0
    ELSE LET Blocks(m) ==
                 IF m.k = 0 THEN 0
                 ELSE m.k
                      + Matches(SubSeq(a, 1, m.i - 1), SubSeq(b, 1, m.j - 1))
                      + Matches(SubSeq(a, m.i + m.k, Len(a)), SubSeq(b, m.j + m.k, Len(b)))
         IN  Blocks(FindLongestMatch(a, b))

(***************************************************************************)
(* The vocabularies of src/chatbot.py                                      *)
(***************************************************************************)
\* INTENT_MAP, in declaration order (a dict iterates in insertion order)
INTENT_MAP == <<
    [intent |-> "incident",
     keywords |-> <<"incident", "outage", "P1", "P2", "sev1", "sev2", "alert", "page", "fire",
                    "escalat", "on-call", "oncall", "respond", "triage">>],
    [intent |-> "monitoring",
     keywords |-> <<"monitor", "observ", "metric", "dashboard", "grafana", "dynatrace",
                    "prometheus", "alert", "SLO", "SLI", "SLA", "error budget", "APM", "RUM",
                    "synthetic", "trace", "log">>],
    [intent |-> "deployment",
     keywords |-> <<"deploy", "pipeline", "CI/CD", "harness", "canary", "rollback", "release",
                    "build", "artifact", "helm", "docker">>],
    [intent |-> "infrastructure",
     keywords |-> <<"kubernetes", "k8s", "terraform", "pod", "container", "node", "cluster",
                    "AWS", "cloud", "IaC", "infra", "scaling", "load balanc">>],
    [intent |-> "reliability",
     keywords |-> <<"chaos", "fault", "resilience", "DR", "disaster", "recovery", "failover",
                    "RTO", "RPO", "redundan", "availability", "SRE", "toil">>],
    [intent |-> "postmortem",
     keywords |-> <<"postmortem", "post-mortem", "RCA", "root cause", "blameless", "retrospect",
                    "lessons learned", "action item">>] >>

GREETINGS == {"hello", "hi", "hey", "good morning", "good afternoon", "howdy", "sup", "what's up"}

HELP_PATTERNS == {"help", "what can you do", "how does this work", "commands", "guide me"}

\* the literals of chatbot_response's three early returns
EmptyMessage ==
    "Please type a question or topic -- I'll find the most relevant SRE resources for you."
EmptySuggestions == <<"incident response", "monitoring setup", "chaos engineering">>

GreetingMessage ==
    "Hey there! I'm the SRE Knowledge Base assistant. "
    \o "Ask me about any SRE topic and I'll point you to the right Confluence page or external resource.\n\n"
    \o "**Try asking about:**"
GreetingSuggestions == <<
    "How do I respond to a P1 incident?",
    "Show me chaos engineering resources",
    "Where's the Dynatrace setup guide?",
    "What are our SLO standards?",
    "Kubernetes troubleshooting help" >>

HelpMessage ==
    "**I can help you find SRE resources!**\n\n"
    \o "Just describe what you need in plain language. I search across:\n"
    \o "- Internal Confluence pages\n"
    \o "- External SRE resources\n"
    \o "- Tags, categories, and descriptions\n\n"
    \o "**Example queries:**"
HelpSuggestions == <<
    "incident runbook",
    "Grafana dashboard setup",
    "disaster recovery plan",
    "terraform standards",
    "on-call rotation policy" >>

\* _generate_suggestions: intent_suggestions and the general list
IntentSuggestions(intent) ==
    CASE intent = "incident" ->
           <<"postmortem template", "on-call escalation policy", "PagerDuty operations guide">>
      [] intent = "monitoring" ->
           <<"SLO/SLI definitions", "Grafana dashboards", "Dynatrace RUM setup">>
      [] intent = "deployment" ->
           <<"canary deployment strategy", "rollback procedures", "Harness pipeline guide">>
      [] intent = "infrastructure" ->
           <<"Kubernetes troubleshooting", "Terraform IaC standards", "AWS reliability pillar">>
      [] intent = "reliability" ->
           <<"chaos engineering playbook", "disaster recovery plan", "error budget policy">>
      [] intent = "postmortem" ->
           <<"incident response runbook", "blameless postmortem guide", "action item tracking">>
      [] OTHER -> <<>>

GeneralSuggestions == <<
    "incident management",
    "observability tools",
    "infrastructure automation",
    "reliability testing" >>

\* suggestions[:4]
MaxSuggestions == 4
\* merged[:5]
MaxResults == 5

(***************************************************************************)
(* Sequence helpers                                                        *)
(***************************************************************************)
\* the last n entries of a sequence, seq[-n:]
TakeFromEnd(seq, n) == SubSeq(seq, IF Len(seq) < n THEN 1 ELSE Len(seq) - n + 1, Len(seq))

\* seq[:n]
Take(seq, n) == SubSeq(seq, 1, IF Len(seq) < n THEN Len(seq) ELSE n)

\* [x for x in seq if Keep(x)]
RECURSIVE SelectIdx(_, _, _)
SelectIdx(seq, keep, i) ==
    IF i > Len(seq) THEN <<>>
    ELSE (IF i \in keep THEN <<seq[i]>> ELSE <<>>) \o SelectIdx(seq, keep, i + 1)

RECURSIVE Sum(_)
Sum(seq) == IF seq = <<>> THEN 0 ELSE Head(seq) + Sum(Tail(seq))

RECURSIVE Flatten(_)
Flatten(seqs) == IF seqs = <<>> THEN <<>> ELSE Head(seqs) \o Flatten(Tail(seqs))

Range(seq) == {seq[i] : i \in 1..Len(seq)}

(***************************************************************************)
(* classify_intent                                                         *)
(***************************************************************************)
\* a keyword test that leaves the keyword's case as declared, which C11 tells
\* from keyword.lower() of line 45
IntentMatchesDeclaredCase(entry, query_lower) ==
    \E i \in 1..Len(entry.keywords) : Contains(entry.keywords[i], query_lower)

IntentMatches(entry, query_lower) ==
    \E i \in 1..Len(entry.keywords) : Contains(Lower(entry.keywords[i]), query_lower)

classify_intent(query) ==
    LET query_lower == Lower(query)
        hit == {i \in 1..Len(INTENT_MAP) : IntentMatches(INTENT_MAP[i], query_lower)}
        names == [i \in 1..Len(INTENT_MAP) |-> INTENT_MAP[i].intent]
    IN  SelectIdx(names, hit, 1)

(***************************************************************************)
(* The inputs the model draws from                                         *)
(***************************************************************************)
\* add_kb_article's arguments (title, category, description, url,
\* source_type, tags); description and tags are nullable columns
Article(title, category, description, source_type, tags) ==
    [title |-> title, category |-> category, description |-> description,
     url |-> "https://kb/x", source_type |-> source_type, tags |-> tags]

ArticleInputs == {
    Article("pod", "lab", "k8s pod", "confluence", "pod,k8s"),
    Article("pods", "infra", NULL, "external", ""),
    Article("bcdefg", "zz", "", "confluence", ""),
    Article("Alerts", "obs", "slo", "external", NULL),
    Article(NULL, "zz", "", "confluence", "") }

\* chatbot_response's user_input
Queries == {
    "", "  ", " \t",
    "hi", "Hello", "HEY", "this", "hi help", "sup?",
    "help", " Help me", "commands",
    "pod", "pods", " POD k8s ", "pod pod", "%", "_", "ab", "x", "it's",
    "alert", "chaos", "tools", "slo", "Pod Alert", "s s" }

\* the rows of a store filled by five earlier add_kb_article calls
MergeRows == <<
    Article("pod", "infra", "k8s pod", "confluence", "pod,k8s"),
    Article("pods", "infra", "", "external", "oom"),
    Article("podcast", "media", "", "external", ""),
    Article("Alerts", "obs", "slo", "confluence", "alert"),
    Article("opd", "zz", "", "confluence", "") >>

MergeInputs == {
    Article("pod", "infra", "k8s pod", "confluence", "pod,k8s"),
    Article("spod", "aa", "", "external", "") }

MergeQueries == {"pod", "pods", "%", "alert", "ab", "hi"}

\* the arguments of the database functions called one by one: articles for
\* add_kb_article (one of them without a source type), keyword arguments for
\* update_kb_article (none, a key that is not a column to set, a category, a
\* title, a title of None), queries
StoreInputs == {
    Article("pod", "lab", "k8s pod", "confluence", "pod,k8s"),
    Article("podman", "lab", "", NULL, "") }

NoKwargs == [k \in {} |-> NULL]

UpdateInputs == <<
    NoKwargs,
    [id |-> 2],
    [category |-> "aa"],
    [title |-> "Pods"],
    [title |-> NULL] >>

StoreQueries == {"pod", "%", "lab", "hi"}

\* what a read of the table raises when the database cannot be read, and
\* the reads of chatbot_response that may meet it
StoreErrors == {"OperationalError", "DatabaseError"}

StoreReads == {"search_kb_articles", "get_all_kb_articles"}

\* the articles seed_kb_articles inserts, in the order of its list
SeedArticles == <<
    [title |-> "Incident Response Runbook",
     category |-> "Incident Management",
     description |->
       "Step-by-step guide for P1/P2 incident response including escalation paths and communication templates.",
     url |-> "https://confluence.internal/sre/incident-runbook",
     source_type |-> "confluence",
     tags |-> "incident,runbook,P1,P2,escalation,on-call"],
    [title |-> "Chaos Engineering Playbook",
     category |-> "Reliability Testing",
     description |->
       "Framework for designing and executing chaos experiments using AWS FIS and custom fault injection.",
     url |-> "https://confluence.internal/sre/chaos-engineering",
     source_type |-> "confluence",
     tags |-> "chaos,engineering,fault-injection,FIS,resilience,testing"],
    [title |-> "SLO/SLI Definition Guide",
     category |-> "Observability",
     description |->
       "How to define, measure, and alert on Service Level Objectives and Indicators across the platform.",
     url |-> "https://confluence.internal/sre/slo-sli-guide",
     source_type |-> "confluence",
     tags |-> "SLO,SLI,SLA,observability,alerting,error-budget"],
    [title |-> "Dynatrace Monitoring Setup",
     category |-> "Observability",
     description |->
       "Configuration guide for Dynatrace real user monitoring, synthetic monitors, and custom dashboards.",
     url |-> "https://confluence.internal/sre/dynatrace-setup",
     source_type |-> "confluence",
     tags |-> "dynatrace,monitoring,RUM,synthetic,dashboard,APM"],
    [title |-> "Harness CI/CD Pipeline Guide",
     category |-> "Deployment",
     description |->
       "Best practices for configuring Harness pipelines with canary deployments and automated rollback.",
     url |-> "https://confluence.internal/sre/harness-pipelines",
     source_type |-> "confluence",
     tags |-> "harness,CI/CD,pipeline,canary,deployment,rollback"],
    [title |-> "Kubernetes Troubleshooting",
     category |-> "Infrastructure",
     description |->
       "Common K8s issues and resolution steps including pod failures, resource limits, and networking.",
     url |-> "https://confluence.internal/sre/k8s-troubleshooting",
     source_type |-> "confluence",
     tags |-> "kubernetes,k8s,pods,troubleshooting,networking,OOM"],
    [title |-> "Disaster Recovery Plan",
     category |-> "Business Continuity",
     description |->
       "DR procedures including RTO/RPO targets, failover automation, and recovery validation.",
     url |-> "https://confluence.internal/sre/disaster-recovery",
     source_type |-> "confluence",
     tags |-> "DR,disaster,recovery,failover,RTO,RPO,business-continuity"],
    [title |-> "Terraform IaC Standards",
     category |-> "Infrastructure",
     description |->
       "Infrastructure as Code standards, module conventions, and state management best practices.",
     url |-> "https://confluence.internal/sre/terraform-standards",
     source_type |-> "confluence",
     tags |-> "terraform,IaC,infrastructure,modules,state,automation"],
    [title |-> "Google SRE Book",
     category |-> "External Resources",
     description |->
       "Google's comprehensive guide to Site Reliability Engineering principles and practices.",
     url |-> "https://sre.google/sre-book/table-of-contents/",
     source_type |-> "external",
     tags |-> "SRE,google,reliability,principles,toil,error-budget"],
    [title |-> "Prometheus Monitoring Guide",
     category |-> "External Resources",
     description |->
       "Official Prometheus documentation for metrics collection, PromQL, and alerting.",
     url |-> "https://prometheus.io/docs/introduction/overview/",
     source_type |-> "external",
     tags |-> "prometheus,metrics,PromQL,alerting,monitoring,TSDB"],
    [title |-> "PagerDuty Incident Ops Guide",
     category |-> "External Resources",
     description |->
       "PagerDuty's guide to incident operations including on-call best practices and postmortems.",
     url |-> "https://response.pagerduty.com/",
     source_type |-> "external",
     tags |-> "pagerduty,incident,on-call,postmortem,operations"],
    [title |-> "AWS Well-Architected Reliability",
     category |-> "External Resources",
     description |->
       "AWS reliability pillar covering fault tolerance, disaster recovery, and scaling strategies.",
     url |-> "https://docs.aws.amazon.com/wellarchitected/latest/reliability-pillar/",
     source_type |-> "external",
     tags |-> "AWS,reliability,well-architected,fault-tolerance,scaling"],
    [title |-> "Grafana Dashboard Best Practices",
     category |-> "Observability",
     description |->
       "Guidelines for creating effective Grafana dashboards with proper panel organization and alerting.",
     url |-> "https://confluence.internal/sre/grafana-dashboards",
     source_type |-> "confluence",
     tags |-> "grafana,dashboard,visualization,alerting,panels"],
    [title |-> "On-Call Rotation & Escalation Policy",
     category |-> "Incident Management",
     description |->
       "On-call scheduling, escalation tiers, and handoff procedures for the SRE team.",
     url |-> "https://confluence.internal/sre/on-call-policy",
     source_type |-> "confluence",
     tags |-> "on-call,rotation,escalation,schedule,handoff,PagerDuty"],
    [title |-> "Postmortem Template & Process",
     category |-> "Incident Management",
     description |->
       "Blameless postmortem template with timeline, root cause analysis, and action item tracking.",
     url |-> "https://confluence.internal/sre/postmortem-template",
     source_type |-> "confluence",
     tags |-> "postmortem,blameless,RCA,root-cause,timeline,action-items"] >>

\* the largest id the explored tables assign (Spec, SpecMerge, SpecStore,
\* SpecLife), and the number of articles of the seed list that SpecLife seeds
MaxId == 2
MaxMergeId == 6
MaxStoreId == 2
MaxLifeId == 5
MaxSeed == 2

\* the arguments SpecLife draws: the head of the seed list, one article to
\* add, two sets of keyword arguments
SeedHead == SubSeq(SeedArticles, 1, MaxSeed)

LifeInputs == {Article("pod", "lab", "k8s pod", "confluence", "pod,k8s")}

LifeUpdates == <<[id |-> 2], [category |-> "aa"]>>

\* the queries asked of the seeded table, and the seeded articles whose
\* deletion SpecSeed explores
SeedQueries == {"incident", "P1 incident", "chaos", "xyz", "hi"}

(***************************************************************************)
(* fuzzy_score and rank_articles                                           *)
(***************************************************************************)
RECURSIVE Gcd(_, _)
Gcd(a, b) == IF b = 0 THEN a ELSE Gcd(b, a % b)

RECURSIVE LcmOf(_)
LcmOf(S) == IF S = {} THEN 1 ELSE LET x == CHOOSE y \in S : TRUE
               rest == LcmOf(S \ {x})
           IN  (x * rest) \div Gcd(x, rest)

TextFields(a) == {a.title, a.category, a.description, a.tags} \ {NULL}

\* every query and every text the model draws
AllQueries == Queries \cup MergeQueries \cup StoreQueries

AllTexts ==
    UNION {TextFields(a) : a \in ArticleInputs \cup MergeInputs \cup Range(MergeRows)
                                \cup StoreInputs}
    \cup (UNION {{UpdateInputs[i][k] : k \in DOMAIN UpdateInputs[i] \cap {"category", "title"}}
                    : i \in 1..Len(UpdateInputs)} \ {NULL})

\* the lengths len(query) + len(text) that SequenceMatcher.ratio() divides by
RatioDenominators ==
    {Len(Strip(q)) + Len(f) : q \in AllQueries, f \in AllTexts} \ {0}

\* 0.3, 0.5 and the four field weights, in tenths
SubstringBonusTenths == 3
ThresholdTenths == 5
TitleWeightTenths == 20
DescWeightTenths == 15
TagWeightTenths == 18
CatWeightTenths == 12

\* a fuzzy score s is held as s * ScoreUnit, a total t as t * TotalUnit
ScoreUnit == 10 * LcmOf(RatioDenominators)
TotalUnit == 10 * ScoreUnit

Min(a, b) == IF a <= b THEN a ELSE b

\* SequenceMatcher(None, a, b).ratio() = 2.0 * matches / (len(a) + len(b)), 1.0 when both are empty
SeqRatio(a, b) ==
    IF Len(a) + Len(b) = 0 THEN ScoreUnit
    ELSE (2 * Matches(a, b) * ScoreUnit) \div (Len(a) + Len(b))

\* a bonus given once per distinct word, which C17 tells from the loop of
\* lines 57-60 that counts a repeated word each time
FuzzyScoreDistinctWords(query, text) ==
    LET query_lower == Lower(query)
        text_lower == Lower(text)
        words == Split(query_lower)
        hits == Cardinality({w \in Range(words) : Contains(w, text_lower)})
    IN  Min(ScoreUnit, hits * SubstringBonusTenths * (ScoreUnit \div 10)
                       + SeqRatio(query_lower, text_lower))

\* fuzzy_score(query, text), for text a str
fuzzy_score(query, text) ==
    LET query_lower == Lower(query)
        text_lower == Lower(text)
        words == Split(query_lower)
        hits == Cardinality({i \in 1..Len(words) : Contains(words[i], text_lower)})
        substring_score == hits * SubstringBonusTenths * (ScoreUnit \div 10)
        seq_score == SeqRatio(query_lower, text_lower)
    IN  Min(ScoreUnit, substring_score + seq_score)

\* fuzzy_score over the queries and texts the model draws, evaluated once
FuzzyScoreTable ==
    [q \in {Strip(x) : x \in AllQueries}, t \in AllTexts |-> fuzzy_score(q, t)]

\* fuzzy_score over the queries asked of the seeded table and the texts of
\* the seed list, evaluated once. These texts are not among AllTexts: their
\* ratios are rounded down to a multiple of 1/ScoreUnit.
SeedScoreTable ==
    [q \in SeedQueries,
     t \in UNION {TextFields(SeedArticles[i]) : i \in 1..Len(SeedArticles)}
        |-> fuzzy_score(q, t)]

FuzzyScoreOf(query, text) ==
    LET Lookup(table, seeded) ==
            IF <<query, text>> \in DOMAIN table THEN table[query, text]
            ELSE IF <<query, text>> \in DOMAIN seeded THEN seeded[query, text]
            ELSE fuzzy_score(query, text)
    IN  Lookup(FuzzyScoreTable, SeedScoreTable)

\* text.lower() raises AttributeError when text is None
FuzzyRaises(text) == text = NULL

\* a total with the weights of tags and description exchanged, which C18
\* tells from the weights of lines 74-75
TotalScoreTagsAsDescription(query, article) ==
    FuzzyScoreOf(query, article.title) * TitleWeightTenths
    + FuzzyScoreOf(query, article.description) * TagWeightTenths
    + FuzzyScoreOf(query, article.tags) * DescWeightTenths
    + FuzzyScoreOf(query, article.category) * CatWeightTenths

\* the total rank_articles gives an article (all four fields str)
TotalScore(query, article) ==
    LET Weighted(text, weight) == FuzzyScoreOf(query, text) * weight
        fields == <<<<article.title, TitleWeightTenths>>, <<article.description, DescWeightTenths>>,
                    <<article.tags, TagWeightTenths>>, <<article.category, CatWeightTenths>>>>
    IN  Sum([i \in 1..Len(fields) |-> Weighted(fields[i][1], fields[i][2])])

\* a threshold that admits a total of exactly 0.5, which C7 tells from line 82
AdmittedFromThreshold(total) == total >= ThresholdTenths * (TotalUnit \div 10)

\* item[0] > 0.5
Admitted(total) == total > ThresholdTenths * (TotalUnit \div 10)

\* a descending sort that puts the later of two equal keys first, which C8
\* tells from line 81
InsertDescUnstable(sorted, x) ==
    LET n == Cardinality({i \in 1..Len(sorted) : sorted[i].total > x.total})
    IN  SubSeq(sorted, 1, n) \o <<x>> \o SubSeq(sorted, n + 1, Len(sorted))

\* list.sort(key=..., reverse=True): descending, equal keys keep their order
InsertDesc(sorted, x) ==
    LET n == Cardinality({i \in 1..Len(sorted) : sorted[i].total >= x.total})
    IN  SubSeq(sorted, 1, n) \o <<x>> \o SubSeq(sorted, n + 1, Len(sorted))

RECURSIVE SortDesc(_)
SortDesc(scored) ==
    IF scored = <<>> THEN <<>>
    ELSE InsertDesc(SortDesc(SubSeq(scored, 1, Len(scored) - 1)), scored[Len(scored)])

\* rank_articles raises when fuzzy_score meets a None field
RankRaises(articles) ==
    \E i \in 1..Len(articles) :
        \E f \in {articles[i].title, articles[i].description, articles[i].tags,
                  articles[i].category} : FuzzyRaises(f)

\* rank_articles(query, articles), when it returns
rank_articles(query, articles) ==
    LET scored == [i \in 1..Len(articles) |->
                      [total |-> TotalScore(query, articles[i]), article |-> articles[i]]]
        Kept(sorted) ==
            SelectIdx([i \in 1..Len(sorted) |-> sorted[i].article],
                      {i \in 1..Len(sorted) : Admitted(sorted[i].total)}, 1)
    IN  Kept(SortDesc(scored))

(***************************************************************************)
(* The kb_articles table (src/database.py)                                 *)
(***************************************************************************)
\* the byte order SQLite's BINARY collation sorts text by (printable ASCII,
\* the grave accent left out)
AsciiOrder ==
    "\t !\"#$%&'()*+,-./0123456789:;<=>?@ABCDEFGHIJKLMNOPQRSTUVWXYZ[\\]^_abcdefghijklmnopqrstuvwxyz{|}~"

OrdTable == [c \in {CharAt(AsciiOrder, i) : i \in 1..Len(AsciiOrder)} |->
               CHOOSE i \in 1..Len(AsciiOrder) : CharAt(AsciiOrder, i) = c]

RECURSIVE StrLess(_, _)
StrLess(a, b) ==
    IF b = "" THEN FALSE
    ELSE IF a = "" THEN TRUE
    ELSE IF Head(a) = Head(b) THEN StrLess(Tail(a), Tail(b))
    ELSE OrdTable[Head(a)] < OrdTable[Head(b)]

\* an order by title and then category, which C19 tells from ORDER BY
\* category, title
KeyLessTitleFirst(r1, r2) ==
    \/ StrLess(r1.title, r2.title)
    \/ r1.title = r2.title /\ StrLess(r1.category, r2.category)

\* ORDER BY category, title: r1 sorts strictly before r2
KeyLess(r1, r2) ==
    \/ StrLess(r1.category, r2.category)
    \/ r1.category = r2.category /\ StrLess(r1.title, r2.title)

\* The sequences a SELECT ... ORDER BY category, title may return for these
\* rows: SQL leaves the order of rows with equal keys open.
RECURSIVE OrderByCategoryTitle(_)
OrderByCategoryTitle(rows) ==
    IF rows = {} THEN {<<>>}
    ELSE LET first == {r \in rows : \A o \in rows : ~KeyLess(o, r)}
         IN  UNION {{<<r>> \o rest : rest \in OrderByCategoryTitle(rows \ {r})} : r \in first}

\* get_all_kb_articles(): what it may return
get_all_kb_articles(rows) == OrderByCategoryTitle(rows)

\* the WHERE clause search_kb_articles builds: one OR-ed condition per term
SearchWhere(row, terms) ==
    \E i \in 1..Len(terms) :
        LET wildcard == "%" \o terms[i] \o "%"
        IN  \/ LowerLike(row.title, wildcard)
            \/ LowerLike(row.description, wildcard)
            \/ LowerLike(row.tags, wildcard)
            \/ LowerLike(row.category, wildcard)

\* search_kb_articles(query): what it may return
search_kb_articles(rows, query) ==
    LET terms == Split(Lower(query))
    IN  IF terms = <<>> THEN get_all_kb_articles(rows)
        ELSE OrderByCategoryTitle({r \in rows : SearchWhere(r, terms)})

\* the NOT NULL and CHECK constraints of kb_articles
ConstraintsHold(a) ==
    /\ a.title # NULL
    /\ a.category # NULL
    /\ a.url # NULL
    /\ a.source_type \in {"confluence", "external", NULL}

Row(id, a) ==
    [id |-> id, title |-> a.title, category |-> a.category, description |-> a.description,
     url |-> a.url, source_type |-> a.source_type, tags |-> a.tags]

(***************************************************************************)
(* chatbot_response and _generate_suggestions                              *)
(***************************************************************************)
\* str(n) for n >= 0
RECURSIVE ToStr(_)
ToStr(n) ==
    IF n < 10 THEN CharAt("0123456789", n + 1)
    ELSE ToStr(n \div 10) \o CharAt("0123456789", (n % 10) + 1)

\* a greeting test that only compares whole queries, which C5 tells from line 107
IsGreetingExact(query) == Lower(query) \in GREETINGS

\* line 107
IsGreeting(query) ==
    \/ Lower(query) \in GREETINGS
    \/ \E g \in GREETINGS : Contains(g, Lower(query))

\* line 125
IsHelp(query) == \E h \in HELP_PATTERNS : Contains(h, Lower(query))

\* a merge that keeps every row, which C6 tells from lines 155-158
MergeKeepingAll(db_results, ranked) == db_results \o ranked

\* the merge loop: db_results + ranked, the first row of each id kept
MergeResults(db_results, ranked) ==
    LET both == db_results \o ranked
    IN  SelectIdx(both, {i \in 1..Len(both) : \A j \in 1..(i - 1) : both[j].id # both[i].id}, 1)

\* the message of the general branch
GeneralMessage(query, top_results) ==
    IF top_results # <<>>
    THEN LET source_types == {top_results[i].source_type : i \in 1..Len(top_results)}
             source_label ==
                 IF "confluence" \in source_types /\ "external" \in source_types
                 THEN "Confluence pages and external resources"
                 ELSE IF "confluence" \in source_types THEN "Confluence pages"
                 ELSE "external resources"
         IN  "Found **" \o ToStr(Len(top_results)) \o "** relevant " \o source_label
             \o " for *\"" \o query \o "\"*:"
    ELSE "I couldn't find articles matching *\"" \o query \o "\"*. "
         \o "Try different keywords or browse the suggestions below."

\* a filter that keeps every suggestion, which C2 tells from line 223
KeepEverySuggestion(query_lower, s) == TRUE

\* the filter of _generate_suggestions: query_lower not in s.lower()
KeepSuggestion(query_lower, s) == ~Contains(query_lower, Lower(s))

\* a return of the whole list, which C12 tells from the slice of line 225
TruncateNothing(suggestions) == suggestions

\* suggestions[:4]
Truncate(suggestions) == Take(suggestions, MaxSuggestions)

\* the suggestions before the filter: those of the intents, else the general ones
SuggestionCandidates(intents) ==
    LET from_intents == Flatten([i \in 1..Len(intents) |-> IntentSuggestions(intents[i])])
    IN  IF from_intents = <<>> THEN GeneralSuggestions ELSE from_intents

\* _generate_suggestions(query, intents, results); results is not read
generate_suggestions(query, intents, results) ==
    LET suggestions == SuggestionCandidates(intents)
        query_lower == Lower(query)
        kept == {i \in 1..Len(suggestions) : KeepSuggestion(query_lower, suggestions[i])}
    IN  Truncate(SelectIdx(suggestions, kept, 1))

\* what a user types into the chat input, and every suggestion that an
\* answer may put on a button
ChatQueries == {"pod", "hi"}
ChatClicks ==
    Range(EmptySuggestions) \cup Range(GreetingSuggestions) \cup Range(HelpSuggestions)
    \cup Range(GeneralSuggestions)
    \cup UNION {Range(IntentSuggestions(INTENT_MAP[i].intent)) : i \in 1..Len(INTENT_MAP)}

\* The parts of chatbot_response that read the query alone, over the queries
\* the model draws, evaluated once.
QueryTable ==
    [q \in {Strip(x) : x \in AllQueries \cup SeedQueries \cup ChatClicks} |->
        LET intents == classify_intent(q)
        IN  [greeting |-> IsGreeting(q), help |-> IsHelp(q), intents |-> intents,
             suggestions |-> generate_suggestions(q, intents, <<>>)]]

\* the frame of a call: its input, the locals the claims speak of (calls lists
\* the store and ranking functions it invoked), its outcome
NoCall ==
    [op |-> "none", user_input |-> "", query |-> "", branch |-> "none",
     calls |-> <<>>, db_results |-> <<>>, all_articles |-> <<>>, ranked |-> <<>>,
     intents |-> <<>>, store_error |-> "none", outcome |-> "none", error |-> "none",
     message |-> "", articles |-> <<>>, suggestions |-> <<>>, ret |-> 0,
     args |-> <<>>]

\* a return of chatbot_response before any search
EarlyReturn(user_input, query, branch, message, suggestions) ==
    [NoCall EXCEPT !.op = "chatbot_response", !.user_input = user_input, !.query = query,
                   !.branch = branch, !.outcome = "returned", !.message = message,
                   !.suggestions = suggestions]

\* lines 145-191: the general branch, given what the two store calls returned
GeneralBranch(user_input, query, db_results, all_articles) ==
    LET base == [NoCall EXCEPT !.op = "chatbot_response", !.user_input = user_input,
                               !.query = query, !.branch = "general",
                               !.calls = <<"search_kb_articles", "get_all_kb_articles",
                                            "rank_articles">>,
                               !.db_results = db_results, !.all_articles = all_articles]
    IN  IF RankRaises(all_articles)
        THEN [base EXCEPT !.outcome = "raised", !.error = "AttributeError"]
        ELSE LET Return(ranked, top_results, suggestions) ==
                     [base EXCEPT !.ranked = ranked, !.intents = QueryTable[query].intents,
                                  !.outcome = "returned",
                                  !.message = GeneralMessage(query, top_results),
                                  !.articles = top_results, !.suggestions = suggestions]
                 Merge(ranked) ==
                     Return(ranked, Take(MergeResults(db_results, ranked), MaxResults),
                            QueryTable[query].suggestions)
             IN  Merge(rank_articles(query, all_articles))

\* the help test made before the greeting test, which C4 tells from the
\* order of lines 107 and 125
SelectBranchHelpFirst(query) ==
    IF query = "" THEN "empty"
    ELSE IF QueryTable[query].help THEN "help"
    ELSE IF QueryTable[query].greeting THEN "greeting"
    ELSE "general"

\* lines 99, 107, 125: the branch a stripped query takes, first match wins
\* a greeting given once and not again while the conversation goes on, which
\* C15 tells from a branch chosen by the query alone
SelectBranchOncePerTalk(query) ==
    IF query = "" THEN "empty"
    ELSE IF QueryTable[query].greeting /\ call.branch # "greeting" THEN "greeting"
    ELSE IF QueryTable[query].help THEN "help"
    ELSE "general"

SelectBranch(query) ==
    IF query = "" THEN "empty"
    ELSE IF QueryTable[query].greeting THEN "greeting"
    ELSE IF QueryTable[query].help THEN "help"
    ELSE "general"

\* chatbot_response(user_input) over a table holding rows: the frames it may
\* end with (one for each order the store may return equal-keyed rows in)
chatbot_response(rows, user_input) ==
    LET Respond(query, branch) ==
            CASE branch = "empty" ->
                    {EarlyReturn(user_input, query, branch, EmptyMessage, EmptySuggestions)}
              [] branch = "greeting" ->
                    {EarlyReturn(user_input, query, branch, GreetingMessage, GreetingSuggestions)}
              [] branch = "help" ->
                    {EarlyReturn(user_input, query, branch, HelpMessage, HelpSuggestions)}
              [] OTHER ->
                    {GeneralBranch(user_input, query, db_results, all_articles) :
                        db_results \in search_kb_articles(rows, query),
                        all_articles \in get_all_kb_articles(rows)}
        Stripped(query) == Respond(query, SelectBranch(query))
    IN  Stripped(Strip(user_input))

\* a failed read answered as a search without results, which C20 tells from
\* lines 146 and 149 standing outside any try
StoreFailureSwallowed(user_input, query, calls, db_results, error) ==
    [NoCall EXCEPT !.op = "chatbot_response", !.user_input = user_input, !.query = query,
                   !.branch = "general", !.calls = calls, !.db_results = db_results,
                   !.store_error = error, !.outcome = "returned",
                   !.message = GeneralMessage(query, <<>>),
                   !.suggestions = QueryTable[query].suggestions]

\* lines 146-149 when a read of the table raises: the call ends there, with
\* what the read raised
StoreFailure(user_input, query, calls, db_results, error) ==
    [NoCall EXCEPT !.op = "chatbot_response", !.user_input = user_input, !.query = query,
                   !.branch = "general", !.calls = calls, !.db_results = db_results,
                   !.store_error = error, !.outcome = "raised", !.error = error]

\* chatbot_response(user_input) while the read named failing raises error
ChatbotResponseStoreFails(user_input, failing, error) ==
    LET Fails(query) ==
            IF SelectBranch(query) # "general" THEN chatbot_response(store, user_input)
            ELSE IF failing = "search_kb_articles"
            THEN {StoreFailure(user_input, query, <<"search_kb_articles">>, <<>>, error)}
            ELSE {StoreFailure(user_input, query,
                               <<"search_kb_articles", "get_all_kb_articles">>,
                               db_results, error) :
                    db_results \in search_kb_articles(store, query)}
    IN  /\ call' \in Fails(Strip(user_input))
        /\ UNCHANGED <<store, nextId>>

\* a call that takes the articles it returns out of the table, which C16 tells
\* from a call that only reads
ChatbotResponseTaking(user_input) ==
    /\ call' \in chatbot_response(store, user_input)
    /\ store' = store \ Range(call'.articles)
    /\ UNCHANGED nextId

ChatbotResponse(user_input) ==
    /\ call' \in chatbot_response(store, user_input)
    /\ UNCHANGED <<store, nextId>>

\* an INSERT into a table declared without AUTOINCREMENT, where the new id
\* is one more than the largest id stored, which C21 tells from the schema
\* of line 86
AddKbArticleAfterLargestStored(a) ==
    LET largest == SetMax({0} \cup {r.id : r \in store})
    IN  /\ store' = store \cup {Row(largest + 1, a)}
        /\ nextId' = nextId
        /\ call' = [NoCall EXCEPT !.op = "add_kb_article", !.outcome = "returned",
                                  !.ret = largest + 1]

\* add_kb_article(title, category, description, url, source_type, tags)
AddKbArticle(a) ==
    IF ConstraintsHold(a)
    THEN /\ store' = store \cup {Row(nextId, a)}
         /\ nextId' = nextId + 1
         /\ call' = [NoCall EXCEPT !.op = "add_kb_article", !.outcome = "returned",
                                   !.ret = nextId]
    ELSE /\ UNCHANGED <<store, nextId>>
         /\ call' = [NoCall EXCEPT !.op = "add_kb_article", !.outcome = "raised",
                                   !.error = "IntegrityError"]

\* delete_kb_article(article_id)
DeleteKbArticle(article_id) ==
    /\ store' = {r \in store : r.id # article_id}
    /\ UNCHANGED nextId
    /\ call' = [NoCall EXCEPT !.op = "delete_kb_article", !.outcome = "returned"]

\* update_kb_article(article_id, **kwargs): the keyword arguments that name
\* no column to set are dropped; without one left nothing is done; the
\* UPDATE sets the others on the row of that id, if there is one, and fails
\* on a constraint of the table
AllowedFields == {"title", "category", "description", "url", "source_type", "tags"}

UpdatedRow(row, fields) ==
    LET Value(k) == IF k \in DOMAIN fields THEN fields[k] ELSE row[k]
    IN  [id |-> row.id, title |-> Value("title"), category |-> Value("category"),
         description |-> Value("description"), url |-> Value("url"),
         source_type |-> Value("source_type"), tags |-> Value("tags")]

UpdateKbArticle(article_id, kwargs) ==
    LET fields == [k \in DOMAIN kwargs \cap AllowedFields |-> kwargs[k]]
        updated == {IF r.id = article_id THEN UpdatedRow(r, fields) ELSE r : r \in store}
    IN  IF DOMAIN fields = {}
        THEN /\ UNCHANGED <<store, nextId>>
             /\ call' = [NoCall EXCEPT !.op = "update_kb_article", !.outcome = "returned",
                                       !.args = <<article_id, kwargs>>]
        ELSE IF \A r \in updated : ConstraintsHold(r)
        THEN /\ store' = updated
             /\ UNCHANGED nextId
             /\ call' = [NoCall EXCEPT !.op = "update_kb_article", !.outcome = "returned",
                                       !.args = <<article_id, kwargs>>]
        ELSE /\ UNCHANGED <<store, nextId>>
             /\ call' = [NoCall EXCEPT !.op = "update_kb_article", !.outcome = "raised",
                                       !.error = "IntegrityError",
                                       !.args = <<article_id, kwargs>>]

\* seed_kb_articles(): nothing when the table holds a row, else the articles
\* of its list inserted in order by one executemany
SeedKbArticles(articles) ==
    IF Cardinality(store) > 0
    THEN /\ UNCHANGED <<store, nextId>>
         /\ call' = [NoCall EXCEPT !.op = "seed_kb_articles", !.outcome = "returned"]
    ELSE /\ store' = {Row(nextId + i - 1, articles[i]) : i \in 1..Len(articles)}
         /\ nextId' = nextId + Len(articles)
         /\ call' = [NoCall EXCEPT !.op = "seed_kb_articles", !.outcome = "returned"]

(***************************************************************************)
(* The meeting tables (src/database.py)                                    *)
(***************************************************************************)
\* a connection on which the pragma was not set: SQLite then checks no
\* foreign key and cascades no delete, which C26 tells from line 19
foreign_keys_unset == FALSE

\* PRAGMA foreign_keys=ON, which get_connection() sets on every connection
foreign_keys == TRUE

ChildTables == {"meeting_notes", "action_items", "attachments", "meeting_urls"}

\* the tables as init_db() creates them; seq holds, per table, the largest id
\* AUTOINCREMENT has given out
NoTables ==
    [meetings |-> {}, meeting_notes |-> {}, action_items |-> {}, attachments |-> {},
     meeting_urls |-> {}, seq |-> [t \in {"meetings"} \cup ChildTables |-> 0]]

\* no connection is open; in_write tells that an unclosed connection is
\* inside a write transaction, which keeps every other writer out

\* the moments CURRENT_TIMESTAMP and datetime.now() may read
Instants == {"t0", "t1"}

MeetingIds == {m.id : m \in tables.meetings}

\* None or NULL in a place that holds a meeting id (the ids start at 1)
NoMeeting == 0

\* the columns of meetings that are declared NOT NULL
MeetingConstraintsHold(m) ==
    /\ m.meeting_date # NULL
    /\ m.meeting_time # NULL
    /\ m.topic # NULL
    /\ m.presenter # NULL

\* the meeting_id of a child row: NOT NULL, and with foreign_keys on a
\* reference to a row of meetings
ReferenceHolds(meeting_id) ==
    /\ meeting_id # NoMeeting
    /\ foreign_keys => meeting_id \in MeetingIds

\* the constraints of each child table on a row to insert
ChildConstraintsHold(table, row) ==
    /\ ReferenceHolds(row.meeting_id)
    /\ table = "action_items" =>
          /\ row.item_type \in {"todo", "action_item"}
          /\ row.description # NULL
    /\ table = "attachments" => row.file_name # NULL
    /\ table = "meeting_urls" => row.url_name # NULL /\ row.url # NULL

\* a row with the id the table gives it
WithId(id, row) == [k \in DOMAIN row \cup {"id"} |-> IF k = "id" THEN id ELSE row[k]]

\* the frame of a database function that returned, or raised
ReturnedFrom(op, args, ret) ==
    [NoCall EXCEPT !.op = op, !.args = args, !.outcome = "returned", !.ret = ret]

RaisedFrom(op, args, error) ==
    [NoCall EXCEPT !.op = op, !.args = args, !.outcome = "raised", !.error = error]

\* what a call leaves of the connection it opened: conn.close() was reached;
\* or the function returned before it; or a statement raised inside the
\* write transaction that the INSERT, UPDATE or DELETE began
Closed == connections
Unclosed == [connections EXCEPT !.unclosed = @ + 1]
UnclosedInWrite == [unclosed |-> connections.unclosed + 1, in_write |-> TRUE]

\* a writing function while an unclosed connection is inside a write
\* transaction: its statement waits, then raises "database is locked"
Locked(op, args) ==
    /\ connections.in_write
    /\ call' = RaisedFrom(op, args, "OperationalError")
    /\ connections' = Unclosed
    /\ UNCHANGED <<store, nextId, tables>>

\* the garbage collector finalises the connections no one closed, which
\* rolls back what they had not committed
CollectGarbage ==
    /\ connections.unclosed > 0
    /\ connections' = [unclosed |-> 0, in_write |-> FALSE]
    /\ UNCHANGED <<store, nextId, call, tables>>

\* the meetings the model creates: one as the create form sends it, one
\* without a topic
MeetingInputs ==
    << [meeting_date |-> "2026-01-05", meeting_time |-> "10:00 AM", topic |-> "Chaos",
        presenter |-> "Ana", description |-> "", url_name |-> "", url |-> ""],
       [meeting_date |-> "2026-01-05", meeting_time |-> "10:00 AM", topic |-> NULL,
        presenter |-> "Ana", description |-> "", url_name |-> "", url |-> ""] >>

MaxMeetings == 2
MaxNotes == 3
MaxUnclosed == 1

\* the model lets a function open a connection while few are left unclosed
MayOpen == connections.unclosed < MaxUnclosed

\* create_meeting(meeting_date, meeting_time, topic, presenter, description,
\* url_name, url): status and the timestamps take the defaults of the schema
CreateMeeting(m, now) ==
    LET id == tables.seq["meetings"] + 1
        row == [id |-> id, meeting_date |-> m.meeting_date, meeting_time |-> m.meeting_time,
                topic |-> m.topic, presenter |-> m.presenter, description |-> m.description,
                url_name |-> m.url_name, url |-> m.url, status |-> "scheduled",
                updated_at |-> now]
    IN  /\ UNCHANGED <<store, nextId>>
        /\ IF connections.in_write THEN Locked("create_meeting", <<m>>)
           ELSE IF MeetingConstraintsHold(m)
           THEN /\ tables' = [tables EXCEPT !.meetings = @ \cup {row}, !.seq["meetings"] = id]
                /\ call' = ReturnedFrom("create_meeting", <<m>>, id)
                /\ connections' = Closed
           ELSE /\ UNCHANGED tables
                /\ call' = RaisedFrom("create_meeting", <<m>>, "IntegrityError")
                /\ connections' = UnclosedInWrite

\* an allowed set that lets the id through, which C29 tells from the set of
\* lines 147-148
AllowedMeetingFieldsAndId ==
    {"id", "meeting_date", "meeting_time", "topic", "presenter", "description", "url_name",
     "url", "status"}

\* update_meeting(meeting_id, **kwargs): as update_kb_article, over the
\* columns of meetings, and with updated_at set to datetime.now()
AllowedMeetingFields ==
    {"meeting_date", "meeting_time", "topic", "presenter", "description", "url_name",
     "url", "status"}

UpdatedMeeting(row, fields) ==
    [k \in DOMAIN row |-> IF k \in DOMAIN fields THEN fields[k] ELSE row[k]]

UpdateMeeting(meeting_id, kwargs, now) ==
    LET allowed == [k \in DOMAIN kwargs \cap AllowedMeetingFields |-> kwargs[k]]
        fields == [k \in DOMAIN allowed \cup {"updated_at"} |->
                      IF k = "updated_at" THEN now ELSE allowed[k]]
        updated == {IF m.id = meeting_id THEN UpdatedMeeting(m, fields) ELSE m :
                      m \in tables.meetings}
        args == <<meeting_id, kwargs>>
    IN  /\ UNCHANGED <<store, nextId>>
        /\ IF DOMAIN allowed = {}
           THEN /\ UNCHANGED tables
                /\ call' = ReturnedFrom("update_meeting", args, 0)
                /\ connections' = Unclosed
           ELSE IF connections.in_write THEN Locked("update_meeting", args)
           ELSE IF \A m \in updated : MeetingConstraintsHold(m)
           THEN /\ tables' = [tables EXCEPT !.meetings = updated]
                /\ call' = ReturnedFrom("update_meeting", args, 0)
                /\ connections' = Closed
           ELSE /\ UNCHANGED tables
                /\ call' = RaisedFrom("update_meeting", args, "IntegrityError")
                /\ connections' = UnclosedInWrite

\* the rows of a child table that ON DELETE CASCADE leaves when the meeting
\* goes: all of them when foreign keys are not enforced
AfterCascade(rows, meeting_id) ==
    IF foreign_keys THEN {r \in rows : r.meeting_id # meeting_id} ELSE rows

\* delete_meeting(meeting_id)
DeleteMeeting(meeting_id) ==
    /\ UNCHANGED <<store, nextId>>
    /\ IF connections.in_write THEN Locked("delete_meeting", <<meeting_id>>)
       ELSE /\ tables' =
                  [tables EXCEPT
                      !.meetings = {m \in @ : m.id # meeting_id},
                      !.meeting_notes = AfterCascade(@, meeting_id),
                      !.action_items = AfterCascade(@, meeting_id),
                      !.attachments = AfterCascade(@, meeting_id),
                      !.meeting_urls = AfterCascade(@, meeting_id)]
            /\ call' = ReturnedFrom("delete_meeting", <<meeting_id>>, 0)
            /\ connections' = Closed

\* an INSERT of one row into a child table by op, which returns the new id
InsertChild(op, table, row) ==
    LET id == tables.seq[table] + 1
    IN  /\ UNCHANGED <<store, nextId>>
        /\ IF connections.in_write THEN Locked(op, <<row>>)
           ELSE IF ChildConstraintsHold(table, row)
           THEN /\ tables' = [tables EXCEPT ![table] = @ \cup {WithId(id, row)},
                                            !.seq[table] = id]
                /\ call' = ReturnedFrom(op, <<row>>, id)
                /\ connections' = Closed
           ELSE /\ UNCHANGED tables
                /\ call' = RaisedFrom(op, <<row>>, "IntegrityError")
                /\ connections' = UnclosedInWrite

\* add_action_item(meeting_id, item_type, description, assignee, due_date)
AddActionItem(meeting_id, item_type, description) ==
    InsertChild("add_action_item", "action_items",
                [meeting_id |-> meeting_id, item_type |-> item_type,
                 description |-> description, assignee |-> "", due_date |-> NULL,
                 status |-> "open"])

\* save_attachment(meeting_id, file_name, file_data, file_type, file_size)
SaveAttachment(meeting_id, file_name) ==
    InsertChild("save_attachment", "attachments",
                [meeting_id |-> meeting_id, file_name |-> file_name, file_data |-> "",
                 file_type |-> "text/plain", file_size |-> 0])

\* add_meeting_url(meeting_id, url_name, url)
AddMeetingUrl(meeting_id, url_name, url) ==
    InsertChild("add_meeting_url", "meeting_urls",
                [meeting_id |-> meeting_id, url_name |-> url_name, url |-> url])

\* upsert_meeting_notes(meeting_id, notes, attendee_count), first statement:
\* whether the SELECT finds a row of the meeting
NotesExist(meeting_id) == \E r \in tables.meeting_notes : r.meeting_id = meeting_id

\* upsert_meeting_notes, second statement: the UPDATE of the rows of the
\* meeting when the SELECT found one, else the INSERT; then commit and close
WriteMeetingNotes(existing, meeting_id, notes, attendee_count) ==
    LET row == [meeting_id |-> meeting_id, notes |-> notes, attendee_count |-> attendee_count]
        id == tables.seq["meeting_notes"] + 1
        args == <<meeting_id, notes, attendee_count>>
    IN  /\ UNCHANGED <<store, nextId>>
        /\ IF connections.in_write THEN Locked("upsert_meeting_notes", args)
           ELSE IF existing
           THEN /\ tables' = [tables EXCEPT !.meeting_notes =
                                 {IF r.meeting_id = meeting_id THEN WithId(r.id, row) ELSE r :
                                     r \in @}]
                /\ call' = ReturnedFrom("upsert_meeting_notes", args, 0)
                /\ connections' = Closed
           ELSE IF ChildConstraintsHold("meeting_notes", row)
           THEN /\ tables' = [tables EXCEPT !.meeting_notes = @ \cup {WithId(id, row)},
                                            !.seq["meeting_notes"] = id]
                /\ call' = ReturnedFrom("upsert_meeting_notes", args, 0)
                /\ connections' = Closed
           ELSE /\ UNCHANGED tables
                /\ call' = RaisedFrom("upsert_meeting_notes", args, "IntegrityError")
                /\ connections' = UnclosedInWrite

\* upsert_meeting_notes called with no other session inside it
UpsertMeetingNotes(meeting_id, notes, attendee_count) ==
    WriteMeetingNotes(NotesExist(meeting_id), meeting_id, notes, attendee_count)

\* the knowledge-base functions with the connection each opens: one that
\* writes waits for the write transaction of an unclosed connection, one that
\* raises or returns early leaves its connection unclosed
AddKbArticleCall(a) ==
    /\ UNCHANGED tables
    /\ IF connections.in_write THEN Locked("add_kb_article", <<a>>)
       ELSE /\ AddKbArticle(a)
            /\ connections' = IF ConstraintsHold(a) THEN Closed ELSE UnclosedInWrite

UpdateKbArticleCall(article_id, kwargs) ==
    /\ UNCHANGED tables
    /\ IF DOMAIN kwargs \cap AllowedFields = {}
       THEN UpdateKbArticle(article_id, kwargs) /\ connections' = Unclosed
       ELSE IF connections.in_write
       THEN Locked("update_kb_article", <<article_id, kwargs>>)
       ELSE /\ UpdateKbArticle(article_id, kwargs)
            /\ connections' = IF call'.outcome = "raised" THEN UnclosedInWrite ELSE Closed

\* search_kb_articles(query) called on its own: a query without a term is
\* answered by get_all_kb_articles(), which opens and closes a connection
\* of its own
SearchKbArticles(query) ==
    /\ \E db_results \in search_kb_articles(store, query) :
          call' = [NoCall EXCEPT !.op = "search_kb_articles", !.args = <<query>>,
                                 !.calls = IF Split(Lower(query)) = <<>>
                                           THEN <<"get_all_kb_articles">> ELSE <<>>,
                                 !.db_results = db_results, !.outcome = "returned"]
    /\ connections' = IF Split(Lower(query)) = <<>> THEN Unclosed ELSE Closed
    /\ UNCHANGED <<store, nextId, tables>>

\* the sessions that may be inside one database function at a time
Sessions == {"s1", "s2"}
Idle == [pc |-> "idle"]

\* session s runs the SELECT of upsert_meeting_notes and holds what it found
SelectMeetingNotes(s, meeting_id, notes, attendee_count) ==
    /\ sessions[s] = Idle
    /\ sessions' = [sessions EXCEPT ![s] =
                       [pc |-> "upsert_meeting_notes", meeting_id |-> meeting_id,
                        notes |-> notes, attendee_count |-> attendee_count,
                        existing |-> NotesExist(meeting_id)]]
    /\ UNCHANGED <<store, nextId, call, tables, connections, session_state>>

\* session s goes on from its SELECT to the UPDATE or INSERT, commit and close
WriteSelectedNotes(s) ==
    LET Write(frame) ==
            WriteMeetingNotes(frame.existing, frame.meeting_id, frame.notes,
                              frame.attendee_count)
    IN  /\ sessions[s].pc = "upsert_meeting_notes"
        /\ Write(sessions[s])
        /\ sessions' = [sessions EXCEPT ![s] = Idle]
        /\ UNCHANGED session_state

\* st.session_state as lines 137-144 of app.py set it on the first run of a
\* browser session (active_notes_meeting, which no modelled handler reads,
\* is left out)
NewSessionState ==
    [chat_history |-> <<>>, editing_meeting_id |-> NoMeeting, show_create_form |-> FALSE]

\* the hub before anything was done in it
HubAtStart ==
    /\ tables = NoTables
    /\ connections = [unclosed |-> 0, in_write |-> FALSE]
    /\ sessions = [s \in Sessions |-> Idle]
    /\ session_state = NewSessionState

(***************************************************************************)
(* The Meeting Agendas page (src/app.py)                                   *)
(***************************************************************************)
\* the New Meeting button
ClickNewMeeting ==
    /\ session_state' = [session_state EXCEPT !.show_create_form = ~@,
                                              !.editing_meeting_id = NoMeeting]
    /\ UNCHANGED <<store, nextId, call, tables, connections>>

\* the create form is on the page
CreateFormShown ==
    session_state.show_create_form /\ session_state.editing_meeting_id = NoMeeting

\* the Create Meeting button of the create form: without a topic or a
\* presenter an error is shown; else the meeting is created and the form
\* closed (a create_meeting that raises ends the run before that)
SubmitCreateForm(m, now) ==
    /\ CreateFormShown
    /\ IF m.topic = "" \/ m.presenter = ""
       THEN UNCHANGED <<store, nextId, call, tables, connections, session_state>>
       ELSE /\ CreateMeeting(m, now)
            /\ session_state' =
                   IF call'.outcome = "returned"
                   THEN [session_state EXCEPT !.show_create_form = FALSE]
                   ELSE session_state

\* an Edit button that leaves the create form as it is, which C28 tells from
\* line 323
ClickEditKeepingCreateForm(meeting_id) ==
    /\ meeting_id \in MeetingIds
    /\ session_state' = [session_state EXCEPT !.editing_meeting_id = meeting_id]
    /\ UNCHANGED <<store, nextId, call, tables, connections>>

\* the Edit button on the card of a meeting
ClickEdit(meeting_id) ==
    /\ meeting_id \in MeetingIds
    /\ session_state' = [session_state EXCEPT !.editing_meeting_id = meeting_id,
                                              !.show_create_form = FALSE]
    /\ UNCHANGED <<store, nextId, call, tables, connections>>

\* the edit form is on the page: a meeting is being edited and get_meeting
\* finds it
EditFormShown == session_state.editing_meeting_id \in MeetingIds

\* the Save Changes button of the edit form, which sends every allowed field
SaveEdit(topic, status, now) ==
    LET Save(m) ==
            UpdateMeeting(m.id,
                          [meeting_date |-> m.meeting_date, meeting_time |-> m.meeting_time,
                           topic |-> topic, presenter |-> m.presenter,
                           description |-> m.description, url_name |-> m.url_name,
                           url |-> m.url, status |-> status],
                          now)
    IN  /\ EditFormShown
        /\ \E m \in tables.meetings :
              m.id = session_state.editing_meeting_id /\ Save(m)
        /\ session_state' =
               IF call'.outcome = "returned"
               THEN [session_state EXCEPT !.editing_meeting_id = NoMeeting]
               ELSE session_state

\* the Cancel button of the edit form
CancelEdit ==
    /\ EditFormShown
    /\ session_state' = [session_state EXCEPT !.editing_meeting_id = NoMeeting]
    /\ UNCHANGED <<store, nextId, call, tables, connections>>

\* the Delete button on the card of a meeting
ClickDelete(meeting_id) ==
    /\ meeting_id \in MeetingIds
    /\ DeleteMeeting(meeting_id)
    /\ UNCHANGED session_state

(***************************************************************************)
(* The KB Chatbot page (src/app.py)                                        *)
(***************************************************************************)
UserEntry(user_input) == [role |-> "user", content |-> user_input]

BotEntry(response) ==
    [role |-> "bot", message |-> response.message, articles |-> response.articles,
     suggestions |-> response.suggestions]

\* the history after _process_chat(user_input), given the frame of its call
\* of chatbot_response: the user entry is appended before the call, the bot
\* entry after it, and a call that raises ends _process_chat there
AfterProcessChat(history, user_input, response) ==
    IF response.outcome = "returned"
    THEN history \o <<UserEntry(user_input), BotEntry(response)>>
    ELSE history \o <<UserEntry(user_input)>>

\* _process_chat(user_input)
ProcessChat(user_input) ==
    /\ ChatbotResponse(user_input)
    /\ session_state' =
           [session_state EXCEPT
               !.chat_history = AfterProcessChat(@, user_input, call')]
    /\ UNCHANGED <<tables, connections>>

\* _process_chat(user_input) while a read of the table raises
ProcessChatStoreFails(user_input, failing, error) ==
    /\ ChatbotResponseStoreFails(user_input, failing, error)
    /\ session_state' =
           [session_state EXCEPT
               !.chat_history = AfterProcessChat(@, user_input, call')]
    /\ UNCHANGED <<tables, connections>>

\* the button of suggestion idx under entry i of the history: the page shows
\* the first four suggestions of a bot entry
ClickSuggestion(i, idx) ==
    LET Click(entry) ==
            /\ entry.role = "bot"
            /\ idx <= Len(Take(entry.suggestions, 4))
            /\ ProcessChat(entry.suggestions[idx])
    IN  /\ i \in 1..Len(session_state.chat_history)
        /\ Click(session_state.chat_history[i])

\* the Clear Chat button, shown while the history is not empty
ClearChat ==
    /\ session_state.chat_history # <<>>
    /\ session_state' = [session_state EXCEPT !.chat_history = <<>>]
    /\ UNCHANGED <<store, nextId, call, tables, connections>>

(***************************************************************************)
(* Specifications                                                          *)
(***************************************************************************)
\* the table as init_db() creates it (empty, no id assigned yet)
Init ==
    /\ store = {}
    /\ nextId = 1
    /\ call = NoCall
    /\ HubAtStart

Next ==
    \/ nextId <= MaxId /\ \E a \in ArticleInputs : AddKbArticle(a) /\ UNCHANGED hub
    \/ \E id \in 1..MaxId : DeleteKbArticle(id) /\ UNCHANGED hub
    \/ \E q \in Queries : ChatbotResponse(q) /\ UNCHANGED hub

Spec == Init /\ [][Next]_vars

\* a table that five add_kb_article calls have filled
InitMerge ==
    /\ store = {Row(i, MergeRows[i]) : i \in 1..Len(MergeRows)}
    /\ nextId = Len(MergeRows) + 1
    /\ call = NoCall
    /\ HubAtStart

NextMerge ==
    \/ nextId <= MaxMergeId /\ \E a \in MergeInputs : AddKbArticle(a) /\ UNCHANGED hub
    \/ \E id \in 1..MaxMergeId : DeleteKbArticle(id) /\ UNCHANGED hub
    \/ \E q \in MergeQueries : ChatbotResponse(q) /\ UNCHANGED hub

SpecMerge == InitMerge /\ [][NextMerge]_vars

\* the database functions called one by one on a new table, and queries,
\* some of them made while the database cannot be read
InitStore ==
    /\ store = {}
    /\ nextId = 1
    /\ call = NoCall
    /\ HubAtStart

NextStore ==
    \/ nextId <= MaxStoreId /\ \E a \in StoreInputs : AddKbArticle(a) /\ UNCHANGED hub
    \/ \E id \in 1..MaxStoreId, i \in 1..Len(UpdateInputs) : UpdateKbArticle(id, UpdateInputs[i]) /\ UNCHANGED hub
    \/ \E id \in 1..MaxStoreId : DeleteKbArticle(id) /\ UNCHANGED hub
    \/ \E q \in StoreQueries : ChatbotResponse(q) /\ UNCHANGED hub
    \/ \E q \in StoreQueries, failing \in StoreReads, error \in StoreErrors :
          ChatbotResponseStoreFails(q, failing, error) /\ UNCHANGED hub

SpecStore == InitStore /\ [][NextStore]_vars

\* the table after the first page run (init_db, seed_kb_articles), then page
\* runs and the database functions in any order
InitLife ==
    /\ store = {Row(i, SeedHead[i]) : i \in 1..Len(SeedHead)}
    /\ nextId = Len(SeedHead) + 1
    /\ call = [NoCall EXCEPT !.op = "seed_kb_articles", !.outcome = "returned"]
    /\ HubAtStart

NextLife ==
    \/ nextId + Len(SeedHead) - 1 <= MaxLifeId /\ SeedKbArticles(SeedHead) /\ UNCHANGED hub
    \/ nextId <= MaxLifeId /\ \E a \in LifeInputs : AddKbArticle(a) /\ UNCHANGED hub
    \/ \E id \in 1..MaxLifeId, i \in 1..Len(LifeUpdates) : UpdateKbArticle(id, LifeUpdates[i]) /\ UNCHANGED hub
    \/ \E id \in 1..MaxLifeId : DeleteKbArticle(id) /\ UNCHANGED hub

SpecLife == InitLife /\ [][NextLife]_vars

\* the seeded table, page runs, queries, and some of its articles deleted
InitSeed ==
    /\ store = {Row(i, SeedArticles[i]) : i \in 1..Len(SeedArticles)}
    /\ nextId = Len(SeedArticles) + 1
    /\ call = [NoCall EXCEPT !.op = "seed_kb_articles", !.outcome = "returned"]
    /\ HubAtStart

NextSeed ==
    \/ SeedKbArticles(SeedArticles) /\ UNCHANGED hub
    \/ \E id \in {1, 5, 11, 14} : DeleteKbArticle(id) /\ UNCHANGED hub
    \/ \E q \in SeedQueries : ChatbotResponse(q) /\ UNCHANGED hub

SpecSeed == InitSeed /\ [][NextSeed]_vars

\* concurrent sessions saving the notes of meetings through
\* upsert_meeting_notes, whose SELECT and whose INSERT or UPDATE are separate
\* statements, while meetings are created and deleted

InitNotes ==
    /\ store = {}
    /\ nextId = 1
    /\ call = NoCall
    /\ HubAtStart

NextNotes ==
    \/ /\ MayOpen /\ tables.seq["meetings"] < MaxMeetings
       /\ \E now \in Instants : CreateMeeting(MeetingInputs[1], now)
       /\ UNCHANGED <<sessions, session_state>>
    \/ /\ MayOpen
       /\ \E id \in 1..MaxMeetings : DeleteMeeting(id)
       /\ UNCHANGED <<sessions, session_state>>
    \/ \E s \in Sessions, id \in 1..MaxMeetings, notes \in {"agenda", "minutes"} :
          /\ MayOpen /\ tables.seq["meeting_notes"] < MaxNotes
          /\ SelectMeetingNotes(s, id, notes, 1)
    \/ \E s \in Sessions : MayOpen /\ WriteSelectedNotes(s)
    \/ CollectGarbage /\ UNCHANGED <<sessions, session_state>>

SpecNotes == InitNotes /\ [][NextNotes]_vars

\* the meeting functions called one by one, with ids of meetings that exist
\* and of meetings that do not
MaxChildren == 2

\* the child rows inserted so far, over the four child tables
ChildrenInserted ==
    tables.seq["meeting_notes"] + tables.seq["action_items"] + tables.seq["attachments"]
    + tables.seq["meeting_urls"]

InitData ==
    /\ store = {}
    /\ nextId = 1
    /\ call = NoCall
    /\ HubAtStart

NextData ==
    \/ /\ MayOpen /\ tables.seq["meetings"] < MaxMeetings
       /\ CreateMeeting(MeetingInputs[1], "t0")
       /\ UNCHANGED <<sessions, session_state>>
    \/ /\ MayOpen
       /\ \E id \in 1..MaxMeetings : DeleteMeeting(id)
       /\ UNCHANGED <<sessions, session_state>>
    \/ /\ MayOpen /\ ChildrenInserted < MaxChildren
       /\ \E id \in 1..MaxMeetings : UpsertMeetingNotes(id, "agenda", 1)
       /\ UNCHANGED <<sessions, session_state>>
    \/ /\ MayOpen /\ ChildrenInserted < MaxChildren
       /\ \E id \in 1..MaxMeetings, item_type \in {"todo", "minutes"} :
             AddActionItem(id, item_type, "follow up")
       /\ UNCHANGED <<sessions, session_state>>
    \/ /\ MayOpen /\ ChildrenInserted < MaxChildren
       /\ \E id \in 1..MaxMeetings : SaveAttachment(id, "slides.pdf")
       /\ UNCHANGED <<sessions, session_state>>
    \/ /\ MayOpen /\ ChildrenInserted < MaxChildren
       /\ \E id \in 1..MaxMeetings : AddMeetingUrl(id, "Slide Deck", "https://kb/deck")
       /\ UNCHANGED <<sessions, session_state>>
    \/ CollectGarbage /\ UNCHANGED <<sessions, session_state>>

SpecData == InitData /\ [][NextData]_vars

\* the functions of the database layer called one by one, the two update
\* functions with keyword arguments that name a column, something else, or
\* nothing
MeetingUpdates ==
    << NoKwargs, [id |-> 2], [topic |-> NULL],
       [status |-> "completed", created_at |-> "t1"] >>

InitLayer ==
    /\ store = {}
    /\ nextId = 1
    /\ call = NoCall
    /\ HubAtStart

NextLayer ==
    \/ /\ MayOpen /\ tables.seq["meetings"] < MaxMeetings
       /\ \E i \in 1..Len(MeetingInputs) : CreateMeeting(MeetingInputs[i], "t0")
       /\ UNCHANGED <<sessions, session_state>>
    \/ /\ MayOpen
       /\ \E id \in 1..MaxMeetings, i \in 1..Len(MeetingUpdates), now \in Instants :
             UpdateMeeting(id, MeetingUpdates[i], now)
       /\ UNCHANGED <<sessions, session_state>>
    \/ /\ MayOpen /\ nextId <= MaxStoreId
       /\ \E a \in LifeInputs : AddKbArticleCall(a)
       /\ UNCHANGED <<sessions, session_state>>
    \/ /\ MayOpen
       /\ \E id \in 1..MaxStoreId, i \in 1..Len(LifeUpdates) :
             UpdateKbArticleCall(id, LifeUpdates[i])
       /\ UNCHANGED <<sessions, session_state>>
    \/ /\ MayOpen
       /\ \E q \in {" ", "pod"} : SearchKbArticles(q)
       /\ UNCHANGED <<sessions, session_state>>
    \/ CollectGarbage /\ UNCHANGED <<sessions, session_state>>

SpecLayer == InitLayer /\ [][NextLayer]_vars

\* one browser session on the Meeting Agendas page
FormInputs ==
    << [meeting_date |-> "2026-01-05", meeting_time |-> "10:00 AM", topic |-> "Chaos",
        presenter |-> "Ana", description |-> "", url_name |-> "", url |-> ""],
       [meeting_date |-> "2026-01-05", meeting_time |-> "10:00 AM", topic |-> "",
        presenter |-> "Ana", description |-> "", url_name |-> "", url |-> ""] >>


InitPage ==
    /\ store = {}
    /\ nextId = 1
    /\ call = NoCall
    /\ HubAtStart

NextPage ==
    \/ ClickNewMeeting /\ UNCHANGED sessions
    \/ /\ tables.seq["meetings"] < MaxMeetings
       /\ \E i \in 1..Len(FormInputs) : SubmitCreateForm(FormInputs[i], "t0")
       /\ UNCHANGED sessions
    \/ \E id \in 1..MaxMeetings : ClickEdit(id) /\ UNCHANGED sessions
    \/ \E topic \in {"Chaos", "Game day"}, status \in {"scheduled", "completed"} :
          SaveEdit(topic, status, "t1") /\ UNCHANGED sessions
    \/ CancelEdit /\ UNCHANGED sessions
    \/ \E id \in 1..MaxMeetings : ClickDelete(id) /\ UNCHANGED sessions

SpecPage == InitPage /\ [][NextPage]_vars

\* one browser session on the KB Chatbot page, over a table that holds two
\* articles users added (the seeded ones deleted)
MaxHistory == 6

InitChat ==
    /\ store = {Row(16, Article("pod", "lab", "k8s pod", "confluence", "pod,k8s")),
                Row(17, Article("podman", "lab", "", "external", ""))}
    /\ nextId = 18
    /\ call = NoCall
    /\ HubAtStart

NextChat ==
    \/ /\ Len(session_state.chat_history) + 2 <= MaxHistory
       /\ \E q \in ChatQueries : ProcessChat(q)
       /\ UNCHANGED sessions
    \/ /\ Len(session_state.chat_history) + 2 <= MaxHistory
       /\ \E q \in ChatQueries, failing \in StoreReads, error \in StoreErrors :
             ProcessChatStoreFails(q, failing, error)
       /\ UNCHANGED sessions
    \/ /\ Len(session_state.chat_history) + 2 <= MaxHistory
       /\ \E i \in 1..MaxHistory, idx \in 1..4 : ClickSuggestion(i, idx)
       /\ UNCHANGED sessions
    \/ ClearChat /\ UNCHANGED sessions

SpecChat == InitChat /\ [][NextChat]_vars

(***************************************************************************)
(* Properties of chatbot_response                                          *)
(***************************************************************************)
IsResponse == call.op = "chatbot_response"
Returned == IsResponse /\ call.outcome = "returned"

\* every character of s is whitespace (so s.strip() is empty)
AllWhitespace(s) == \A i \in 1..Len(s) : CharAt(s, i) \in WhiteSpace

\* s, lowered, holds one of the phrases
HoldsPhrase(phrases, s) == \E p \in phrases : Contains(p, Lower(s))

\* no suggestion holds text as a substring, case ignored
NoSuggestionHolds(text) ==
    \A i \in 1..Len(call.suggestions) : ~Contains(Lower(text), Lower(call.suggestions[i]))

\* C1: every response of chatbot_response, in every branch, has a non-empty
\* message, at most 5 articles and at most 4 suggestions.
C1_ResponseShape ==
    Returned =>
        /\ call.message # ""
        /\ Len(call.articles) <= MaxResults
        /\ Len(call.suggestions) <= MaxSuggestions

\* C2 as stated: for any query, the empty and whitespace-only ones included,
\* no returned suggestion holds the original query text, case ignored.
C2_NoSuggestionHoldsInput == Returned => NoSuggestionHolds(call.user_input)

\* C2: for a query that is not empty once stripped, no returned suggestion
\* holds the stripped query text (nor, then, the text as typed), case ignored.
C2_NoSuggestionHoldsQuery ==
    (Returned /\ ~AllWhitespace(call.user_input)) =>
        /\ NoSuggestionHolds(Strip(call.user_input))
        /\ NoSuggestionHolds(call.user_input)

\* a general response from whose candidate suggestions the filter dropped one
C2_Witness ==
    /\ Returned
    /\ call.branch = "general"
    /\ call.suggestions # <<>>
    /\ \E s \in Range(SuggestionCandidates(classify_intent(call.query))) :
            Contains(Lower(call.query), Lower(s))

\* C3: an input that is empty, or empty once stripped, gets the fixed prompt,
\* no articles and the fixed starter suggestions, and neither
\* search_kb_articles, get_all_kb_articles nor rank_articles is called.
C3_EmptyInput ==
    (IsResponse /\ AllWhitespace(call.user_input)) =>
        /\ call.outcome = "returned"
        /\ call.message = EmptyMessage
        /\ call.articles = <<>>
        /\ call.suggestions = EmptySuggestions
        /\ call.calls = <<>>

\* a whitespace-only input answered while the table holds an article
C3_Witness ==
    /\ Returned
    /\ call.user_input = "  "
    /\ store # {}
    /\ call.message = EmptyMessage

\* C4: one branch per query, in the order empty > greeting > help > general:
\* a non-empty query with a greeting phrase gets the greeting response even
\* when it holds a help phrase too, one with a help phrase and no greeting
\* phrase gets the help response, and the search of the general branch runs
\* exactly when the query is non-empty and holds neither kind of phrase.
C4_BranchPriority ==
    IsResponse =>
        LET query == Strip(call.user_input)
            greeting == HoldsPhrase(GREETINGS, query)
            help == HoldsPhrase(HELP_PATTERNS, query)
        IN  /\ query = "" => call.message = EmptyMessage
            /\ (query # "" /\ greeting) => call.message = GreetingMessage
            /\ (query # "" /\ ~greeting /\ help) => call.message = HelpMessage
            /\ (query # "" /\ ~greeting /\ ~help) <=> call.calls # <<>>

\* a query holding a greeting and a help phrase, answered with the greeting
C4_Witness ==
    /\ Returned
    /\ call.user_input = "hi help"
    /\ HoldsPhrase(GREETINGS, call.user_input)
    /\ HoldsPhrase(HELP_PATTERNS, call.user_input)
    /\ call.message = GreetingMessage

\* C5: a non-empty query that equals or holds a greeting phrase gets the fixed
\* greeting message and suggestions, a query that holds a help phrase (and no
\* greeting phrase, which comes first) the fixed help message and suggestions;
\* both with no articles and no call to the store or to rank_articles.
C5_FixedResponses ==
    IsResponse =>
        LET query == Strip(call.user_input)
            greeting == query # "" /\ HoldsPhrase(GREETINGS, query)
            help == query # "" /\ HoldsPhrase(HELP_PATTERNS, query)
        IN  /\ greeting =>
                /\ call.message = GreetingMessage
                /\ call.suggestions = GreetingSuggestions
            /\ (help /\ ~greeting) =>
                /\ call.message = HelpMessage
                /\ call.suggestions = HelpSuggestions
            /\ (greeting \/ help) =>
                /\ call.outcome = "returned"
                /\ call.articles = <<>>
                /\ call.calls = <<>>
                /\ call.db_results = <<>> /\ call.all_articles = <<>> /\ call.ranked = <<>>

\* a help request answered while the table holds an article
C5_Witness ==
    /\ Returned
    /\ store # {}
    /\ call.user_input = " Help me"
    /\ call.message = HelpMessage
    /\ call.suggestions = HelpSuggestions

(***************************************************************************)
(* Properties of the general branch and of rank_articles                   *)
(***************************************************************************)
General == Returned /\ call.branch = "general"

IdsOf(seq) == {seq[i].id : i \in 1..Len(seq)}

\* the total of an article is over 0.5
OverThreshold(query, article) == TotalScore(query, article) * 2 > TotalUnit

\* C6: the returned articles are the first 5 of the keyword-search results
\* followed by the ranked results that the keyword search did not return: no
\* id twice, an id of both sources at its keyword-search position, every
\* keyword-search result before every fuzzy-only one.
C6_MergedArticles ==
    General =>
        LET db == call.db_results
            fuzzy == call.ranked
            fuzzy_only == SelectIdx(fuzzy, {i \in 1..Len(fuzzy) : fuzzy[i].id \notin IdsOf(db)}, 1)
            shown == call.articles
        IN  /\ shown = Take(db \o fuzzy_only, MaxResults)
            /\ \A i, j \in 1..Len(shown) : i # j => shown[i].id # shown[j].id
            /\ \A i \in 1..Len(shown) : i <= Len(db) => shown[i] = db[i]
            /\ \A i \in 1..Len(shown) :
                    i > Len(db) => shown[i].id \notin IdsOf(db) /\ shown[i] \in Range(fuzzy)

\* more than 5 merged results, among them an article of both sources and,
\* after the keyword-search results, one that only the ranking found
C6_Witness ==
    /\ General
    /\ Cardinality(IdsOf(call.db_results) \cup IdsOf(call.ranked)) > MaxResults
    /\ IdsOf(call.db_results) \cap IdsOf(call.ranked) # {}
    /\ Len(call.articles) = MaxResults
    /\ call.articles[MaxResults].id \notin IdsOf(call.db_results)

\* C7: rank_articles returns those articles of its input whose total is
\* strictly over 0.5, and no other: a total of exactly 0.5 is left out.
C7_AdmissionThreshold ==
    General =>
        /\ \A i \in 1..Len(call.ranked) :
                /\ call.ranked[i] \in Range(call.all_articles)
                /\ OverThreshold(call.query, call.ranked[i])
        /\ \A i \in 1..Len(call.all_articles) :
                OverThreshold(call.query, call.all_articles[i])
                    => call.all_articles[i] \in Range(call.ranked)

\* a ranking that left out an article with a total of exactly 0.5 and kept another
C7_Witness ==
    /\ General
    /\ call.ranked # <<>>
    /\ \E i \in 1..Len(call.all_articles) :
            /\ TotalScore(call.query, call.all_articles[i]) * 2 = TotalUnit
            /\ call.all_articles[i] \notin Range(call.ranked)

\* C8: rank_articles returns the admitted articles by descending total, and
\* articles of equal total in the order they had in the input list.
C8_DescendingStable ==
    General =>
        LET Pos(a) == CHOOSE k \in 1..Len(call.all_articles) : call.all_articles[k] = a
            Total(i) == TotalScore(call.query, call.ranked[i])
        IN  \A i, j \in 1..Len(call.ranked) :
                i < j => /\ Total(i) >= Total(j)
                         /\ Total(i) = Total(j) => Pos(call.ranked[i]) < Pos(call.ranked[j])

\* a ranking with two articles of equal total and one of a greater total
C8_Witness ==
    /\ General
    /\ \E i, j \in 1..Len(call.ranked) :
            /\ i < j
            /\ call.ranked[i] # call.ranked[j]
            /\ TotalScore(call.query, call.ranked[i]) = TotalScore(call.query, call.ranked[j])
    /\ \E i, j \in 1..Len(call.ranked) :
            /\ i < j
            /\ TotalScore(call.query, call.ranked[i]) > TotalScore(call.query, call.ranked[j])

\* C9: chatbot_response returns a response for every input string.
C9_AlwaysReturns == IsResponse => call.outcome = "returned"

\* C10: an article whose description or tags is NULL does not make
\* rank_articles raise.
C10_NullFieldDoesNotRaise ==
    (IsResponse /\ call.branch = "general"
        /\ \E i \in 1..Len(call.all_articles) :
                call.all_articles[i].description = NULL \/ call.all_articles[i].tags = NULL)
    => call.outcome = "returned"
(***************************************************************************)
(* Properties of classify_intent and _generate_suggestions                 *)
(***************************************************************************)
\* the tags in the order INTENT_MAP declares them
DeclaredTags ==
    <<"incident", "monitoring", "deployment", "infrastructure", "reliability", "postmortem">>

\* the place of a tag in the declaration order
TagPlace(tag) == CHOOSE k \in 1..Len(DeclaredTags) : DeclaredTags[k] = tag

\* one of the tag's keywords occurs in the query, case ignored
KeywordOccurs(k, query) ==
    \E i \in 1..Len(INTENT_MAP[k].keywords) :
        Contains(Lower(INTENT_MAP[k].keywords[i]), Lower(query))

\* C11: classify_intent returns exactly the tags that have a keyword occurring
\* in the query, case ignored, each once, in declaration order (so the empty
\* list when no keyword occurs).
C11_ClassifyIntent ==
    General =>
        /\ \A i \in 1..Len(call.intents) : call.intents[i] \in Range(DeclaredTags)
        /\ \A i, j \in 1..Len(call.intents) :
                i < j => TagPlace(call.intents[i]) < TagPlace(call.intents[j])
        /\ \A k \in 1..Len(DeclaredTags) :
                INTENT_MAP[k].intent = DeclaredTags[k]
                /\ (DeclaredTags[k] \in Range(call.intents) <=> KeywordOccurs(k, call.query))

\* a query naming an infrastructure keyword before a keyword that two earlier
\* tags share, in mixed case
C11_Witness ==
    /\ General
    /\ call.query = "Pod Alert"
    /\ call.intents = <<"incident", "monitoring", "infrastructure">>

RECURSIVE PhrasesOfTags(_), WithoutHolding(_, _)
\* the phrases of the tags in the order given, those of a tag together
PhrasesOfTags(tags) ==
    IF tags = <<>> THEN <<>> ELSE IntentSuggestions(Head(tags)) \o PhrasesOfTags(Tail(tags))

\* phrases without those that hold text, case ignored, the others in order
WithoutHolding(phrases, text) ==
    IF phrases = <<>> THEN <<>>
    ELSE (IF Contains(Lower(text), Lower(Head(phrases))) THEN <<>> ELSE <<Head(phrases)>>)
         \o WithoutHolding(Tail(phrases), text)

\* C12: on the general branch the suggestions are the 3-phrase lists of the
\* tags classify_intent gave, concatenated in its order, or the 4 generic
\* phrases when it gave none; without every phrase that holds the query, case
\* ignored; and of what is left, the first 4.
C12_Suggestions ==
    General =>
        LET candidates == IF call.intents = <<>> THEN GeneralSuggestions
                          ELSE PhrasesOfTags(call.intents)
            kept == WithoutHolding(candidates, call.query)
        IN  /\ \A i \in 1..Len(call.intents) : Len(IntentSuggestions(call.intents[i])) = 3
            /\ Len(GeneralSuggestions) = 4
            /\ call.suggestions = SubSeq(kept, 1, IF Len(kept) < 4 THEN Len(kept) ELSE 4)

\* three tags give nine phrases, of which the first four are returned
C12_Witness ==
    /\ General
    /\ call.query = "Pod Alert"
    /\ Len(PhrasesOfTags(call.intents)) = 9
    /\ call.suggestions = <<"postmortem template", "on-call escalation policy",
                            "PagerDuty operations guide", "SLO/SLI definitions">>

(***************************************************************************)
(* Properties of the message                                               *)
(***************************************************************************)
\* the message that reports n articles under a source label
FoundMessage(n, label, query) ==
    "Found **" \o ToStr(n) \o "** relevant " \o label \o " for *\"" \o query \o "\"*:"

\* the message of a search that returned nothing
NoMatchMessage(query) ==
    "I couldn't find articles matching *\"" \o query \o "\"*. "
    \o "Try different keywords or browse the suggestions below."

\* C13: the message of a general response gives the number of returned
\* articles and their source mix: mixed exactly when internal and external
\* articles are both returned, internal exactly when all are internal,
\* external exactly when all are external (so never for an article without a
\* source type); it is the no-match message when no article is returned.
C13_MessageSourceMix ==
    General =>
        LET n == Len(call.articles)
            internal == {i \in 1..n : call.articles[i].source_type = "confluence"}
            external == {i \in 1..n : call.articles[i].source_type = "external"}
            Says(label) == call.message = FoundMessage(n, label, call.query)
        IN  IF n = 0 THEN call.message = NoMatchMessage(call.query)
            ELSE /\ Says("Confluence pages and external resources")
                        <=> (internal # {} /\ external # {})
                 /\ Says("Confluence pages") <=> internal = 1..n
                 /\ Says("external resources") <=> external = 1..n

(***************************************************************************)
(* Properties of the store's reads                                         *)
(***************************************************************************)
\* the searched columns of a row that hold a text
SearchedTexts(row) == {row.title, row.description, row.tags, row.category} \ {NULL}

\* a token of the lowered query occurs, character for character, in a
\* searched column of the row, the column's case ignored
HoldsToken(row, query) ==
    LET tokens == Split(Lower(query))
    IN  \E i \in 1..Len(tokens) : \E text \in SearchedTexts(row) :
            Contains(tokens[i], Lower(text))

\* rows is in order of category, rows of one category in order of title
\* (strings compare character by character, as the table's columns do)
InCategoryTitleOrder(rows) ==
    \A i, j \in 1..Len(rows) :
        i < j => \/ StrLess(rows[i].category, rows[j].category)
                 \/ /\ rows[i].category = rows[j].category
                    /\ ~StrLess(rows[j].title, rows[i].title)

\* C14: search_kb_articles returns exactly the articles of which a searched
\* column holds a whitespace token of the lowered query as a literal
\* substring, '%' and '_' standing for themselves.
C14_LiteralSearch ==
    General => Range(call.db_results) = {r \in store : HoldsToken(r, call.query)}

(***************************************************************************)
(* Determinism and frame                                                   *)
(***************************************************************************)
\* no two stored rows agree on category and title, so that ORDER BY
\* category, title leaves the store one order to return
KeysDistinct ==
    \A r1, r2 \in store : (r1.category = r2.category /\ r1.title = r2.title) => r1 = r2

C16_ReadOnly ==
    [][call'.op = "chatbot_response" =>
          /\ store' = store
          /\ nextId' = nextId
          /\ (call'.branch = "general" /\ call'.store_error = "none") =>
                /\ Range(call'.all_articles) = store'
                /\ Len(call'.all_articles) = Cardinality(store')
                /\ InCategoryTitleOrder(call'.all_articles)
                /\ Range(call'.db_results) \subseteq store']_vars

\* a general query answered from a table of two rows, both of them ranked
C16_Witness ==
    /\ General
    /\ Cardinality(store) = 2
    /\ Range(call.all_articles) = store
    /\ Len(call.ranked) = 2

(***************************************************************************)
(* Properties of the scores                                                *)
(***************************************************************************)
\* a chatbot_response call that reached rank_articles
Ranking == IsResponse /\ call.branch = "general"

\* how many of the tokens, each counted as often as it is listed, occur in text
RECURSIVE TokensIn(_, _)
TokensIn(tokens, text) ==
    IF tokens = <<>> THEN 0
    ELSE (IF Contains(Head(tokens), text) THEN 1 ELSE 0) + TokensIn(Tail(tokens), text)

\* the texts rank_articles scores: the four fields of the listed articles
ScoredTexts == UNION {TextFields(call.all_articles[i]) : i \in 1..Len(call.all_articles)}

\* C17: fuzzy_score(query, text) is the smaller of 1 and 0.3 times the number
\* of whitespace tokens of the lowered query, repeated tokens counted each
\* time, that occur in the lowered text, plus the similarity ratio of the two
\* lowered strings; it lies in [0, 1], is 0 on an empty text for a non-empty
\* query, and does not change when query or text change case.
C17_FuzzyScore ==
    Ranking =>
        \A text \in ScoredTexts :
            LET score == FuzzyScoreOf(call.query, text)
                bonus == 3 * TokensIn(Split(Lower(call.query)), Lower(text)) * ScoreUnit
                sum == bonus + 10 * SeqRatio(Lower(call.query), Lower(text))
            IN  /\ 10 * score = (IF sum < 10 * ScoreUnit THEN sum ELSE 10 * ScoreUnit)
                /\ 0 <= score /\ score <= ScoreUnit
                /\ (call.query # "" /\ text = "") => score = 0
                /\ score = fuzzy_score(Lower(call.query), text)
                /\ score = fuzzy_score(call.query, Lower(text))

\* the query "s s" against the tags "pod,k8s": two counted tokens and a ratio
\* of 2/10, 0.8 in all, below the cap
C17_Witness ==
    /\ Ranking
    /\ call.query = "s s"
    /\ "pod,k8s" \in ScoredTexts
    /\ 10 * FuzzyScoreOf(call.query, "pod,k8s") = 8 * ScoreUnit

\* C18: the total of an article is 2.0 times the score of its title plus 1.8
\* times that of its tags plus 1.5 times that of its description plus 1.2
\* times that of its category, each field scored by fuzzy_score alone, and
\* lies in [0, 6.5].
C18_WeightedTotal ==
    General =>
        \A i \in 1..Len(call.all_articles) :
            LET article == call.all_articles[i]
                total == TotalScore(call.query, article)
            IN  /\ total = 20 * fuzzy_score(call.query, article.title)
                          + 18 * fuzzy_score(call.query, article.tags)
                          + 15 * fuzzy_score(call.query, article.description)
                          + 12 * fuzzy_score(call.query, article.category)
                /\ 0 <= total /\ total <= 65 * ScoreUnit
                /\ TotalUnit = 10 * ScoreUnit

\* the query "pod" on the article pod/lab: the title scores 1 (capped), tags
\* and description 0.9 each, the category 0, and the total is
\* 2.0 + 1.62 + 1.35 = 4.97
C18_Witness ==
    /\ General
    /\ call.query = "pod"
    /\ \E i \in 1..Len(call.all_articles) :
            /\ call.all_articles[i].title = "pod"
            /\ call.all_articles[i].category = "lab"
            /\ TotalScore(call.query, call.all_articles[i]) = 497 * (ScoreUnit \div 10)

\* C19: after any sequence of add, update and delete calls,
\* get_all_kb_articles returns every stored article once, in order of
\* category and then title, and search_kb_articles returns stored articles,
\* none twice, in that order.
C19_StoreOrder ==
    General =>
        /\ Range(call.all_articles) = store
        /\ Len(call.all_articles) = Cardinality(store)
        /\ InCategoryTitleOrder(call.all_articles)
        /\ Range(call.db_results) \subseteq store
        /\ Len(call.db_results) = Cardinality(Range(call.db_results))
        /\ InCategoryTitleOrder(call.db_results)

\* the second article added, moved by an update to a category that sorts
\* first, is listed before the first; the search for its old category
\* returns the other alone
C19_Witness ==
    /\ General
    /\ call.query = "lab"
    /\ Len(call.all_articles) = 2
    /\ call.all_articles[1].id = 2
    /\ call.all_articles[1].category = "aa"
    /\ Len(call.db_results) = 1
    /\ call.db_results[1].id = 1

(***************************************************************************)
(* Failures of the store                                                   *)
(***************************************************************************)
\* C20: when search_kb_articles or get_all_kb_articles raises during a
\* general query, chatbot_response raises what the read raised: it has made
\* each read at most once and none after the failed one, has not ranked, and
\* returns no message, articles or suggestions.
C20_StoreFailureSurfaces ==
    (IsResponse /\ call.store_error # "none") =>
        /\ call.outcome = "raised"
        /\ call.error = call.store_error
        /\ call.calls \in {<<"search_kb_articles">>,
                           <<"search_kb_articles", "get_all_kb_articles">>}
        /\ call.message = "" /\ call.articles = <<>> /\ call.suggestions = <<>>
        /\ call.ranked = <<>>

\* the listing of a table of two rows fails after the search returned both
C20_Witness ==
    /\ IsResponse
    /\ call.store_error = "OperationalError"
    /\ call.calls = <<"search_kb_articles", "get_all_kb_articles">>
    /\ Len(call.db_results) = 2
    /\ call.outcome = "raised"

(***************************************************************************)
(* Properties of the article ids and of seeding                            *)
(***************************************************************************)
IdsIn(rows) == {r.id : r \in rows}

\* C21: no two stored articles share an id; update_kb_article leaves the
\* ids as they are; an article that enters the table gets an id that was
\* never assigned before (nextId is one more than the largest id ever
\* assigned), so not the id of a deleted article.
C21_IdsUniqueStable ==
    [][/\ \A r1, r2 \in store' : r1.id = r2.id => r1 = r2
       /\ call'.op = "update_kb_article" => IdsIn(store') = IdsIn(store)
       /\ \A r \in store : r.id < nextId
       /\ \A id \in IdsIn(store') \ IdsIn(store) : id >= nextId /\ id < nextId'
       /\ nextId' >= nextId]_vars

\* an article added after the article of the largest id was deleted: its id
\* is larger than every id stored and skips the deleted one
C21_Witness ==
    /\ call.op = "add_kb_article"
    /\ call.outcome = "returned"
    /\ call.ret = 4
    /\ IdsIn(store) = {1, 4}

\* C22: on the seeded table the query "incident" takes the general branch,
\* classify_intent yields the tag incident, and the article titled
\* "Incident Response Runbook" is among the at most five returned articles.
SeededTable == {Row(i, SeedArticles[i]) : i \in 1..Len(SeedArticles)}

C22_IncidentOnSeed ==
    (IsResponse /\ call.user_input = "incident" /\ store = SeededTable)
        => /\ call.branch = "general"
           /\ call.outcome = "returned"
           /\ "incident" \in Range(call.intents)
           /\ "incident" \in Range(classify_intent(call.query))
           /\ Len(call.articles) <= MaxResults
           /\ \E i \in 1..Len(call.articles) :
                  /\ call.articles[i].title = "Incident Response Runbook"
                  /\ call.articles[i] \in store

C22_Witness ==
    /\ IsResponse
    /\ call.user_input = "incident"
    /\ store = SeededTable
    /\ [i \in 1..Len(call.articles) |-> call.articles[i].id] = <<11, 1, 14, 15, 5>>
    /\ call.articles[2].title = "Incident Response Runbook"

\* C23: under any interleaving of upsert_meeting_notes calls by concurrent
\* sessions for the same meeting, the store holds at most one meeting_notes
\* row for that meeting once the calls are over.
NotesOf(meeting_id) == {r \in tables.meeting_notes : r.meeting_id = meeting_id}

C23_OneNotesRowPerMeeting ==
    (\A s \in Sessions : sessions[s] = Idle) =>
        \A id \in MeetingIds : Cardinality(NotesOf(id)) <= 1

\* C24: the seed articles are inserted at most once: after the first page
\* run has seeded the table, no later seed_kb_articles call, in any sequence
\* with add_kb_article and delete_kb_article, inserts a row, so an article a
\* user deleted does not come back on a later page run.
C24_SeededOnce ==
    [][call'.op = "seed_kb_articles" => IdsIn(store') \subseteq IdsIn(store)]_vars

\* C26: after any sequence of create_meeting, delete_meeting,
\* upsert_meeting_notes, add_action_item, save_attachment and add_meeting_url
\* calls, every row of the four child tables references an existing meeting;
\* delete_meeting removes the meeting, all child rows of that meeting and no
\* row of any other; and adding a child row for a meeting that does not
\* exist fails and leaves every table as it was.
ChildOps == {"upsert_meeting_notes", "add_action_item", "save_attachment", "add_meeting_url"}

\* the meeting a call of one of ChildOps was made for
MeetingArgument(frame) ==
    IF frame.op = "upsert_meeting_notes" THEN frame.args[1] ELSE frame.args[1].meeting_id

C26_ReferentialIntegrity ==
    [][/\ \A t \in ChildTables : \A r \in tables'[t] : r.meeting_id \in MeetingIds'
       /\ (call'.op = "delete_meeting" /\ call'.outcome = "returned" /\ call' # call) =>
             /\ tables'.meetings = {m \in tables.meetings : m.id # call'.args[1]}
             /\ \A t \in ChildTables :
                   tables'[t] = {r \in tables[t] : r.meeting_id # call'.args[1]}
       /\ (call'.op \in ChildOps /\ MeetingArgument(call') \notin MeetingIds) =>
             /\ call'.outcome = "raised"
             /\ tables' = tables]_vars

\* delete_meeting returned having taken the child row of its meeting and
\* left the child row of the other meeting
C26_Witness ==
    /\ call.op = "delete_meeting"
    /\ call.outcome = "returned"
    /\ call.args[1] \notin MeetingIds
    /\ ChildrenInserted = 2
    /\ Cardinality(UNION {tables[t] : t \in ChildTables}) = 1
    /\ \A t \in ChildTables : \A r \in tables[t] : r.meeting_id \in MeetingIds

\* C25: every database function closes the connection it opened on every
\* return path: a call that returns, update_meeting and update_kb_article
\* with no allowed field and search_kb_articles with a whitespace-only query
\* among them, leaves no more connections open than it found, so that after
\* any sequence of returning calls none is open.
C25_NoConnectionLeftOpen ==
    [][call'.outcome = "returned" => connections'.unclosed <= connections.unclosed]_vars

\* C29: update_meeting and update_kb_article change only the record with the
\* given id, and of it only columns that are in their allowed set and among
\* the keyword arguments (plus updated_at for a meeting): other keyword
\* arguments are ignored, every other record and table stays as it was, a
\* call with no allowed field changes nothing, and so does a call with an id
\* that no record has.
C29_MeetingColumns ==
    {"meeting_date", "meeting_time", "topic", "presenter", "description", "url_name", "url",
     "status"}
C29_ArticleColumns == {"title", "category", "description", "url", "source_type", "tags"}

OnlyRecordAndColumns(before, after, id, kwargs, allowed, stamped) ==
    /\ {r.id : r \in after} = {r.id : r \in before}
    /\ \A r \in before : r.id # id => r \in after
    /\ \A r \in before, u \in after :
          (r.id = id /\ u.id = id) =>
              \A k \in DOMAIN r :
                  u[k] # r[k] => \/ k \in stamped
                                 \/ k \in allowed \cap DOMAIN kwargs /\ u[k] = kwargs[k]
    /\ DOMAIN kwargs \cap allowed = {} => after = before
    /\ id \notin {r.id : r \in before} => after = before

C29_UpdateFrame ==
    [][/\ call'.op = "update_meeting" =>
             /\ OnlyRecordAndColumns(tables.meetings, tables'.meetings, call'.args[1],
                                     call'.args[2], C29_MeetingColumns, {"updated_at"})
             /\ [tables' EXCEPT !.meetings = {}] = [tables EXCEPT !.meetings = {}]
             /\ store' = store
       /\ call'.op = "update_kb_article" =>
             /\ OnlyRecordAndColumns(store, store', call'.args[1], call'.args[2],
                                     C29_ArticleColumns, {})
             /\ tables' = tables]_vars

\* update_meeting(1, status="completed", created_at="t1") returned: meeting 1
\* is completed, meeting 2 is as create_meeting left it
C29_Witness ==
    /\ call.op = "update_meeting"
    /\ call.outcome = "returned"
    /\ call.args = <<1, [status |-> "completed", created_at |-> "t1"]>>
    /\ \E m \in tables.meetings : m.id = 1 /\ m.status = "completed" /\ m.updated_at = "t1"
    /\ \E m \in tables.meetings : m.id = 2 /\ m.status = "scheduled" /\ m.updated_at = "t0"

\* C28: on the Meeting Agendas page the create form and an edit form are
\* never active together: after any sequence of New Meeting, Create, Edit,
\* Save, Cancel and Delete it never holds that show_create_form is true
\* while editing_meeting_id is not None.
C28_OneFormAtATime ==
    ~(session_state.show_create_form /\ session_state.editing_meeting_id # NoMeeting)

\* the second meeting, made through the create form, is being edited
C28_Witness ==
    /\ session_state.editing_meeting_id = 2
    /\ ~session_state.show_create_form
    /\ EditFormShown
    /\ Cardinality(tables.meetings) = 2

\* C27: the chat history is always a sequence of complete exchanges: after
\* any sequence of chat submissions, suggestion clicks and Clear Chat, a
\* submission during which a read of the table fails among them, the
\* history has even length and alternates user entry, bot entry, each bot
\* entry holding the response to the user entry right before it.
C27_CompleteExchanges ==
    LET Complete(history) ==
            /\ Len(history) % 2 = 0
            /\ \A i \in 1..Len(history) :
                  IF i % 2 = 1 THEN history[i].role = "user"
                  ELSE /\ history[i].role = "bot"
                       /\ history[i - 1].role = "user"
                       /\ \E response \in chatbot_response(store, history[i - 1].content) :
                             /\ response.outcome = "returned"
                             /\ history[i] = BotEntry(response)
    IN  Complete(session_state.chat_history)

====
